---- MODULE Spec2Model ----
(***************************************************************************)
(* A model of py_surrafication: the assignment solver (assignment.py), the *)
(* frame generator and writer loop (animate.py), the grid partitioner      *)
(* get_cells (core.py) and the seeding done by the command line (cli.py).  *)
(*                                                                         *)
(* Number representation.  The program works on float64 values; the model  *)
(* works on exact scaled integers:                                         *)
(*   - a colour channel c stands for c / ChanDen            (0, 0.5, 1)    *)
(*   - a position coordinate n stands for n / (2*GridRes), the centre      *)
(*     (row + 0.5) / GridRes that get_cells produces is n = 2*row + 1      *)
(*   - proximity_importance p stands for p / PDen                          *)
(*   - a cost is scaled by PDen * ChanDen^2 * (2*GridRes)^2                *)
(*   - luminance is scaled by 1000 * ChanDen                               *)
(* Arrays are functions over 0..N-1, as the program indexes them.          *)
(***************************************************************************)
EXTENDS Integers, Sequences, FiniteSets, TLC

VARIABLES
    \* ---- solve_assignment: arguments
    algorithm, src_features, src_pos, tgt_features, tgt_pos, proximity_importance,
    \* ---- solve_assignment: locals and outcome
    pc,               \* "call", "greedy_loop", "approx_loop", "returned", "raised"
    assignment,       \* the array being filled (-1 = not assigned yet)
    taken_targets,    \* the set of claimed targets
    source_indices,   \* greedy's visiting order, a sequence of source indices
    visit,            \* number of loop iterations of greedy/approx completed
    result,           \* the returned array, or NoResult
    tie_order,        \* the order this build's np.argsort leaves equal costs in
    \* ---- process-wide generators
    py_random,        \* state of the `random` module's generator
    np_random,        \* state of numpy's global generator
    \* ---- a second call of solve_assignment on the same arguments
    calls,            \* number of calls started
    first_result,     \* what the first call returned
    rng_at_call,      \* <<py_random, np_random>> when the running call started
    \* ---- generate_frames: arguments (with src_pos, tgt_pos, assignment above)
    src_cells, tgt_cells, duration, fps, jitter_amount, particle_scale, shape,
    color_mix, hold_start, hold_end,
    \* ---- generate_frames: locals
    gen_pc,           \* "idle", "created", "precompute", "hold_start", "animate",
                      \* "hold_end", "exhausted"
    num_frames, start_hold_frames, end_hold_frames,
    jitter_offsets, src_particles, tgt_particles,
    loop_i,           \* the running for loop's counter
    \* ---- save_video
    pending,          \* the frame yielded and not yet given to the writer
    written,          \* the frames given to writer.append_data, in order
    \* ---- show_preview
    preview,          \* args.preview: the frames go to a window, not to a file
    shown,            \* the frames put on the window's label, in order
    window,           \* "none", "open", "finished" (closes after 2 s), "destroyed"
    \* ---- two invocations of the pipeline in one process
    inv_pc,           \* "seed", "seed_random", "shuffle", "shuffling", "jitter", "done"
    inv_seed,         \* args.seed, NoSeed for None
    inv_order,        \* source_indices, the list random.shuffle works on
    inv_i,            \* random.shuffle's loop variable i
    inv_jitter,
    \* ---- get_cells: arguments and outcome
    image,            \* the pixel buffer: [shape |-> <<h, w>>, data |-> pixels, row by row]
    grid_res,
    cells_pc,         \* "idle", "call", "returned", "raised"
    cells, positions, \* the two returned arrays
    cells_error       \* the exception raised, or NoResult

solverVars == <<algorithm, src_features, src_pos, tgt_features, tgt_pos,
                proximity_importance, pc, assignment, taken_targets,
                source_indices, visit, result, tie_order>>
rngVars == <<py_random, np_random>>
callVars == <<calls, first_result, rng_at_call>>
genArgs == <<src_cells, tgt_cells, duration, fps, jitter_amount, particle_scale,
             shape, color_mix, hold_start, hold_end>>
genLocals == <<gen_pc, num_frames, start_hold_frames, end_hold_frames,
               jitter_offsets, src_particles, tgt_particles, loop_i>>
writerVars == <<pending, written, preview, shown, window>>
frameVars == <<genArgs, genLocals, writerVars>>
invVars == <<inv_pc, inv_seed, inv_order, inv_i, inv_jitter>>
cellVars == <<image, grid_res, cells_pc, cells, positions, cells_error>>
vars == <<solverVars, rngVars, callVars, frameVars, invVars, cellVars>>

----------------------------------------------------------------------------
(* Bounds of the model *)

MaxN == 3
GridRes == 2
ChanDen == 2
PDen == 4

Idx(n) == 0 .. (n - 1)

NoResult == "none"
NoFrame == [phase |-> "none"]
NoArray == [shape |-> <<-1>>, data |-> <<>>]

Algorithms == {"sort", "optimal", "greedy", "approx"}
UnknownAlgorithms == {"hungarian"}

\* Cell colours the inputs are drawn from: black and a dark red (0.5, 0, 0).
Palette == {<<0, 0, 0>>, <<1, 0, 0>>}

\* proximity_importance values: 0, 1/2, 1
PValues == {0, 2, PDen}

\* Positions: centres of a GridRes x GridRes grid, row-major or column-major.
RowMajor(n) == [k \in Idx(n) |-> <<2 * (k \div GridRes) + 1, 2 * (k % GridRes) + 1>>]
ColMajor(n) == [k \in Idx(n) |-> <<2 * (k % GridRes) + 1, 2 * (k \div GridRes) + 1>>]
Layouts(n) == {RowMajor(n), ColMajor(n)}

(* IEEE-754 binary64 arithmetic, as Python's float and numpy's float64      *)
(* compute: every operation returns the representable value nearest to the  *)
(* exact result, ties to the even mantissa.  A value is [s, m, e] and       *)
(* stands for s * m * 2^e, with s = 1 or -1 and m a natural number of       *)
(* exactly 53 bits held as limbs of 15 bits, least significant first; zero  *)
(* is [s |-> 1, m |-> <<>>, e |-> 0].  Subnormals, infinities and NaN do     *)
(* not occur in the program's computations and are left out.                *)

LimbBits == 15
Limb == 32768
MantissaBits == 53

RECURSIVE Pow2(_)
Pow2(k) == IF k <= 0 THEN 1 ELSE 2 * Pow2(k - 1)

RECURSIVE big_norm(_)
\* drop zero limbs at the most significant end
big_norm(a) ==
    IF a = <<>> THEN <<>>
    ELSE IF a[Len(a)] = 0 THEN big_norm(SubSeq(a, 1, Len(a) - 1))
    ELSE a

RECURSIVE big_from_int(_)
big_from_int(n) == IF n = 0 THEN <<>> ELSE <<n % Limb>> \o big_from_int(n \div Limb)

RECURSIVE big_to_int(_)
\* only for values below 2^31
big_to_int(a) == IF a = <<>> THEN 0 ELSE Head(a) + Limb * big_to_int(Tail(a))

RECURSIVE big_add_carry(_, _, _)
big_add_carry(a, b, c) ==
    IF a = <<>> /\ b = <<>> THEN (IF c = 0 THEN <<>> ELSE <<c>>)
    ELSE LET x == IF a = <<>> THEN 0 ELSE Head(a)
             y == IF b = <<>> THEN 0 ELSE Head(b)
             sum == x + y + c
         IN <<sum % Limb>> \o big_add_carry(IF a = <<>> THEN <<>> ELSE Tail(a),
                                            IF b = <<>> THEN <<>> ELSE Tail(b),
                                            sum \div Limb)

big_add(a, b) == big_add_carry(a, b, 0)

RECURSIVE big_sub_borrow(_, _, _)
\* a - b - c for a >= b + c
big_sub_borrow(a, b, c) ==
    IF a = <<>> THEN <<>>
    ELSE LET y == IF b = <<>> THEN 0 ELSE Head(b)
             d == Head(a) - y - c
         IN <<IF d < 0 THEN d + Limb ELSE d>>
            \o big_sub_borrow(Tail(a), IF b = <<>> THEN <<>> ELSE Tail(b),
                              IF d < 0 THEN 1 ELSE 0)

big_sub(a, b) == big_norm(big_sub_borrow(a, b, 0))

RECURSIVE big_less_from(_, _, _)
\* a < b for two numbers of the same number of limbs, compared from limb i down
big_less_from(a, b, i) ==
    IF i = 0 THEN FALSE
    ELSE IF a[i] # b[i] THEN a[i] < b[i]
    ELSE big_less_from(a, b, i - 1)

big_less(a, b) ==
    IF Len(a) # Len(b) THEN Len(a) < Len(b) ELSE big_less_from(a, b, Len(a))

RECURSIVE big_mul_small_carry(_, _, _)
\* a * k + c for 0 <= k <= Limb
big_mul_small_carry(a, k, c) ==
    IF a = <<>> THEN (IF c = 0 THEN <<>> ELSE <<c>>)
    ELSE LET p == Head(a) * k + c
         IN <<p % Limb>> \o big_mul_small_carry(Tail(a), k, p \div Limb)

big_mul_small(a, k) == big_norm(big_mul_small_carry(a, k, 0))

RECURSIVE big_mul(_, _)
big_mul(a, b) ==
    IF a = <<>> \/ b = <<>> THEN <<>>
    ELSE LET rest == big_mul(a, Tail(b))
         IN big_add(big_mul_small(a, Head(b)),
                    IF rest = <<>> THEN <<>> ELSE <<0>> \o rest)

RECURSIVE big_divmod_small_from(_, _, _, _)
\* long division of the limbs i, i-1, ..., 1 of a by n, with r carried in
big_divmod_small_from(a, n, i, r) ==
    IF i = 0 THEN [q |-> <<>>, r |-> r]
    ELSE LET cur == r * Limb + a[i]
         IN [big_divmod_small_from(a, n, i - 1, cur % n)
                EXCEPT !.q = Append(@, cur \div n)]

\* [q, r] with a = q * n + r, for 0 < n <= Limb
big_divmod_small(a, n) ==
    [big_divmod_small_from(a, n, Len(a), 0) EXCEPT !.q = big_norm(@)]

RECURSIVE bit_length(_)
bit_length(n) == IF n = 0 THEN 0 ELSE 1 + bit_length(n \div 2)

big_bit_length(a) ==
    IF a = <<>> THEN 0 ELSE (Len(a) - 1) * LimbBits + bit_length(a[Len(a)])

\* a * 2^k
big_shift_left(a, k) ==
    IF a = <<>> THEN <<>>
    ELSE [i \in 1 .. (k \div LimbBits) |-> 0] \o big_mul_small(a, Pow2(k % LimbBits))

\* [q, r]: q = a div 2^k, r = TRUE iff a mod 2^k # 0
big_shift_right(a, k) ==
    LET limbs == k \div LimbBits
        dropped == SubSeq(a, 1, IF limbs > Len(a) THEN Len(a) ELSE limbs)
        kept == IF limbs >= Len(a) THEN <<>> ELSE SubSeq(a, limbs + 1, Len(a))
    IN [big_divmod_small(kept, Pow2(k % LimbBits))
           EXCEPT !.r = (@ # 0 \/ \E i \in DOMAIN dropped : dropped[i] # 0)]

f64_zero == [s |-> 1, m |-> <<>>, e |-> 0]

\* s * m * 2^e for m of 53 bits, or of 54 bits when m = 2^53
f64_pack(s, m, e) ==
    IF big_bit_length(m) > MantissaBits
    THEN [s |-> s, m |-> big_divmod_small(m, 2).q, e |-> e + 1]
    ELSE [s |-> s, m |-> m, e |-> e]

\* half = [q, r]: the 53 bits kept and the first bit dropped; rest: whether
\* anything lies below that bit.  Round to nearest, ties to even.
f64_round_half(s, half, rest, e) ==
    f64_pack(s, IF half.r = 1 /\ (rest \/ half.q[1] % 2 = 1)
                THEN big_add(half.q, <<1>>) ELSE half.q, e)

\* m of len bits
f64_round_len(s, m, e, sticky, len, upper) ==
    IF len <= MantissaBits
    THEN [s |-> s, m |-> big_shift_left(m, MantissaBits - len),
          e |-> e - (MantissaBits - len)]
    ELSE f64_round_half(s, big_divmod_small(upper.q, 2), sticky \/ upper.r,
                        e + len - MantissaBits)

\* the binary64 nearest to s * m * 2^e (+ something below one unit of m when
\* sticky), ties to even
f64_round(s, m, e, sticky) ==
    IF m = <<>> THEN f64_zero
    ELSE f64_round_len(s, m, e, sticky, big_bit_length(m),
                       big_shift_right(m, big_bit_length(m) - MantissaBits - 1))

\* float(n) for an int n
f64_from_int(n) ==
    IF n < 0 THEN f64_round(-1, big_from_int(-n), 0, FALSE)
    ELSE f64_round(1, big_from_int(n), 0, FALSE)

f64_neg(a) == IF a.m = <<>> THEN a ELSE [a EXCEPT !.s = -a.s]

\* |a| < |b|
f64_mag_less(a, b) ==
    IF b.m = <<>> THEN FALSE
    ELSE IF a.m = <<>> THEN TRUE
    ELSE IF a.e # b.e THEN a.e < b.e
    ELSE big_less(a.m, b.m)

\* a < b
f64_less(a, b) ==
    LET an == a.m # <<>> /\ a.s = -1
        bn == b.m # <<>> /\ b.s = -1
    IN IF an /\ ~bn THEN b.m # <<>> \/ a.m # <<>>
       ELSE IF ~an /\ bn THEN FALSE
       ELSE IF an THEN f64_mag_less(b, a)
       ELSE f64_mag_less(a, b)

\* sa * x + sb * y, times 2^e
f64_add_aligned(sa, x, sb, y, e) ==
    f64_round(IF sa = sb \/ ~big_less(x, y) THEN sa ELSE sb,
              IF sa = sb THEN big_add(x, y)
              ELSE IF big_less(x, y) THEN big_sub(y, x) ELSE big_sub(x, y),
              e, FALSE)

\* a + b
f64_add(a, b) ==
    IF a.m = <<>> THEN b
    ELSE IF b.m = <<>> THEN a
    ELSE IF a.e - b.e > 64 THEN a
    ELSE IF b.e - a.e > 64 THEN b
    ELSE LET e == IF a.e < b.e THEN a.e ELSE b.e
         IN f64_add_aligned(a.s, big_shift_left(a.m, a.e - e),
                            b.s, big_shift_left(b.m, b.e - e), e)

\* a - b
f64_sub(a, b) == f64_add(a, f64_neg(b))

\* a * b
f64_mul(a, b) ==
    IF a.m = <<>> \/ b.m = <<>> THEN f64_zero
    ELSE f64_round(a.s * b.s, big_mul(a.m, b.m), a.e + b.e, FALSE)

\* d = [q, r], a quotient and its remainder
f64_round_quotient(s, d, e) == f64_round(s, d.q, e, d.r # 0)

\* a / n for an int n, 0 < n <= Limb
f64_div_int(a, n) ==
    IF a.m = <<>> THEN f64_zero
    ELSE f64_round_quotient(a.s, big_divmod_small(big_shift_left(a.m, 2 * LimbBits), n),
                            a.e - 2 * LimbBits)

\* the float nearest to num / den: a literal such as 0.01, or int / int
f64(num, den) == f64_div_int(f64_from_int(num), den)

\* int(a), a.astype(int): toward zero
f64_trunc(a) ==
    IF a.m = <<>> \/ a.e <= -MantissaBits THEN 0
    ELSE IF a.e >= 0 THEN a.s * big_to_int(big_shift_left(a.m, a.e))
    ELSE a.s * big_to_int(big_shift_right(a.m, -a.e).q)

\* the binary64 whose 53-bit mantissa is hi * 2^26 + lo, 2^26 <= hi < 2^27
f64_bits(s, hi, lo, e) ==
    [s |-> s, m |-> big_add(big_shift_left(big_from_int(hi), 26), big_from_int(lo)),
     e |-> e]

----------------------------------------------------------------------------
(* The process-wide generators.  Both are Mersenne Twisters (MT19937); a    *)
(* state is [seed, pos]: the seed the generator was last given and the      *)
(* number of outputs taken since.  The outputs themselves are tabulated.    *)

MaxSeed == 1
Seeds == 0 .. MaxSeed

\* random.seed(s) for s = 0 .. 7: the top 8 bits of the first 64 32-bit
\* outputs of CPython's Mersenne Twister, row s + 1
py_words ==
  <<
    <<216, 98, 194, 227, 107, 10, 66, 247, 130, 124, 103, 235, 200, 212,
      77, 247, 122, 91, 149, 228, 232, 55, 129, 35, 72, 35, 193, 24, 158,
      204, 64, 252, 232, 136, 251, 180, 207, 154, 230, 37, 79, 25, 186,
      18, 230, 217, 175, 84, 120, 143, 25, 90, 111, 80, 156, 163, 233, 52,
      247, 141, 122, 113, 221, 133>>,
    <<34, 145, 216, 205, 195, 16, 65, 30, 126, 194, 115, 120, 166, 97,
      201, 53, 24, 124, 7, 228, 213, 99, 110, 155, 195, 196, 0, 178, 114,
      68, 184, 205, 58, 151, 241, 26, 230, 81, 7, 5, 6, 166, 138, 2, 240,
      225, 97, 175, 55, 248, 108, 185, 7, 135, 56, 195, 112, 240, 126,
      141, 59, 88, 59, 173>>,
    <<244, 220, 242, 217, 14, 23, 21, 92, 213, 43, 188, 207, 171, 218, 78,
      64, 155, 54, 155, 9, 148, 174, 40, 255, 110, 163, 100, 205, 185,
      220, 254, 130, 243, 95, 139, 239, 113, 128, 68, 230, 9, 222, 7, 93,
      119, 238, 81, 232, 97, 108, 228, 226, 134, 42, 143, 45, 60, 59, 6,
      45, 83, 44, 34, 130>>,
    <<60, 151, 139, 33, 94, 234, 154, 121, 160, 148, 16, 155, 3, 232, 214,
      120, 66, 141, 59, 49, 254, 183, 120, 138, 214, 140, 121, 101, 163,
      220, 38, 59, 162, 38, 222, 237, 133, 99, 189, 3, 171, 198, 16, 40,
      194, 245, 151, 10, 77, 199, 7, 210, 221, 68, 121, 152, 184, 235,
      224, 99, 182, 201, 235, 109>>,
    <<60, 77, 26, 184, 101, 122, 39, 23, 17, 5, 102, 140, 234, 74, 204,
      253, 195, 15, 56, 133, 137, 92, 70, 199, 44, 211, 27, 67, 54, 241,
      237, 6, 212, 164, 206, 66, 204, 69, 49, 42, 79, 74, 160, 222, 187,
      245, 218, 217, 225, 95, 22, 216, 155, 86, 171, 99, 129, 63, 45, 63,
      121, 71, 22, 241>>,
    <<159, 65, 189, 91, 203, 176, 241, 215, 189, 166, 236, 135, 7, 215,
      119, 198, 241, 63, 166, 13, 230, 40, 28, 95, 120, 222, 63, 97, 139,
      26, 146, 63, 3, 187, 55, 104, 71, 46, 234, 222, 196, 99, 40, 195,
      204, 18, 35, 158, 158, 113, 32, 33, 0, 248, 223, 1, 53, 198, 55,
      245, 251, 42, 223, 42>>,
    <<203, 146, 210, 20, 124, 195, 66, 9, 0, 37, 169, 150, 120, 247, 194,
      188, 95, 81, 197, 5, 69, 125, 205, 50, 186, 223, 105, 233, 137, 138,
      174, 24, 49, 144, 141, 179, 206, 186, 67, 169, 205, 156, 175, 22,
      216, 108, 85, 253, 23, 92, 204, 104, 206, 64, 113, 179, 24, 193, 50,
      179, 162, 203, 74, 24>>,
    <<82, 242, 38, 101, 166, 12, 18, 210, 137, 24, 93, 149, 14, 232, 129,
      54, 9, 22, 111, 107, 17, 61, 23, 141, 108, 15, 211, 144, 31, 242,
      57, 161, 160, 149, 242, 15, 147, 149, 101, 12, 249, 56, 11, 142,
      219, 34, 74, 107, 36, 138, 30, 146, 78, 143, 208, 174, 46, 26, 148,
      146, 163, 48, 95, 24>>
  >>

\* np.random.seed(s) for s = 0 .. 7: the pairs <<a, b>> = <<word >> 5, word >> 6>>
\* that the first 16 calls of random_sample take from numpy's MT19937, row s + 1
np_words ==
  <<
    <<<<73660501, 39785128>>, <<95991091, 56657715>>, <<80901530, 57575755>>,
      <<73132982, 56858101>>, <<56861984, 41846651>>, <<86690440, 25795419>>,
      <<58731961, 19967209>>, <<119691746, 3805943>>, <<129340626, 18297654>>,
      <<51464649, 32055563>>, <<106263535, 54503720>>, <<70987074, 32210722>>,
      <<76241650, 26359341>>, <<124231477, 56108296>>, <<9534298, 22642273>>,
      <<11694296, 43498078>>>>,
    <<<<55971745, 66919939>>, <<96680316, 62582865>>, <<15351, 8598286>>,
      <<40578390, 67044474>>, <<19697242, 15843663>>, <<12393476, 26614082>>,
      <<24999422, 26032249>>, <<46380375, 44945895>>, <<53253228, 62782964>>,
      <<72318757, 56794964>>, <<56263335, 21023429>>, <<91968604, 35201831>>,
      <<27441116, 29759619>>, <<117858927, 15406666>>, <<3675900, 35863910>>,
      <<89988625, 61334953>>>>,
    <<<<58518245, 12420648>>, <<3479759, 62514649>>, <<73774448, 63601124>>,
      <<58427982, 32530961>>, <<56420811, 21510836>>, <<44336789, 10363398>>,
      <<27467474, 46899881>>, <<83117142, 8049744>>, <<40218969, 32559604>>,
      <<35812950, 42462310>>, <<83367171, 54910265>>, <<71020249, 45837098>>,
      <<18063014, 33457873>>, <<68931288, 39379278>>, <<24755099, 48301888>>,
      <<105405899, 17347512>>>>,
    <<<<73926843, 4746266>>, <<95045991, 56368026>>, <<39044573, 8142223>>,
      <<68562120, 38205836>>, <<119849311, 29330730>>, <<120298422, 1258157>>,
      <<16855775, 2726682>>, <<27815668, 16635502>>, <<6907811, 6278134>>,
      <<59164495, 46628826>>, <<4009917, 9755625>>, <<61315117, 30411878>>,
      <<87126639, 14467128>>, <<37377930, 23750167>>, <<90765396, 33060237>>,
      <<79304264, 61290622>>>>,
    <<<<129792547, 60439682>>, <<73448269, 11589387>>, <<130551484, 57419749>>,
      <<95940978, 40871687>>, <<93647577, 40101318>>, <<29003041, 9493499>>,
      <<131033339, 15066337>>, <<836210, 46870188>>, <<33954717, 60611284>>,
      <<58356731, 42477434>>, <<104607005, 346224>>, <<26532841, 38410193>>,
      <<115828991, 24259608>>, <<131989804, 40542608>>, <<21990533, 26290984>>,
      <<80172804, 54488891>>>>,
    <<<<29795419, 3703075>>, <<116867711, 55789466>>, <<27745375, 24409969>>,
      <<123293868, 65729441>>, <<65553440, 6027787>>, <<82106871, 26624542>>,
      <<102798412, 23765801>>, <<69580884, 32657723>>, <<39835888, 66492867>>,
      <<25195516, 54242865>>, <<10836909, 43584447>>, <<99111778, 54993888>>,
      <<59231521, 16276611>>, <<21247990, 51296177>>, <<118103149, 7442424>>,
      <<36787262, 13700593>>>>,
    <<<<119837660, 63584043>>, <<44557575, 14053023>>, <<110223507, 4312053>>,
      <<5596426, 24837621>>, <<14449434, 66104164>>, <<79866536, 6675432>>,
      <<71110882, 40833973>>, <<56211381, 35594304>>, <<45017679, 32402354>>,
      <<83553143, 55378857>>, <<58806346, 50668062>>, <<98768424, 26170818>>,
      <<69529670, 16093631>>, <<77693086, 10443152>>, <<86618094, 48608878>>,
      <<132905651, 61350614>>>>,
    <<<<10241925, 15256467>>, <<104678928, 21405863>>, <<58842290, 65647427>>,
      <<97101852, 30573785>>, <<131263530, 20670386>>, <<72275692, 17708072>>,
      <<67259250, 5821253>>, <<9670539, 28143592>>, <<36029270, 1067726>>,
      <<67093093, 35417695>>, <<91164706, 58304278>>, <<107876027, 22202246>>,
      <<51129053, 26369912>>, <<8849826, 45253548>>, <<38674247, 45118448>>,
      <<122083576, 46575670>>>>
  >>

\* random.seed(seed), np.random.seed(seed): the state a seed gives
seed_state(seed) == [seed |-> seed, pos |-> 0]

\* the states a generator can be in when a call begins
RngStates == {seed_state(seed) : seed \in Seeds}

\* random.getrandbits(k), k <= 8: the top k bits of the next 32-bit output
getrandbits(s, k) ==
    [state |-> [s EXCEPT !.pos = @ + 1],
     value |-> py_words[s.seed + 1][s.pos + 1] \div Pow2(8 - k)]

RECURSIVE Randbelow(_, _)
\* random._randbelow(n) (_randbelow_with_getrandbits): k = n.bit_length();
\* r = getrandbits(k); while r >= n: r = getrandbits(k)
Randbelow(s, n) ==
    LET r == getrandbits(s, bit_length(n))
    IN IF r.value >= n THEN Randbelow(r.state, n) ELSE r

RECURSIVE shuffle_from(_, _, _)
\* random.shuffle: for i in reversed(range(1, len(x))): j = randbelow(i+1); swap
shuffle_from(x, i, s) ==
    IF i < 1 THEN [list |-> x, state |-> s]
    ELSE LET d == Randbelow(s, i + 1)
             j == d.value
             x1 == [x EXCEPT ![i] = x[j], ![j] = x[i]]
         IN shuffle_from(x1, i - 1, d.state)

shuffle(x, n, s) == shuffle_from(x, n - 1, s)

\* np.random.random_sample(): (a * 67108864.0 + b) / 9007199254740992.0
random_sample(s) ==
    LET w == np_words[s.seed + 1][s.pos + 1]
    IN [state |-> [s EXCEPT !.pos = @ + 1],
        value |-> f64_round(1, big_add(big_shift_left(big_from_int(w[1]), 26),
                                       big_from_int(w[2])), -53, FALSE)]

----------------------------------------------------------------------------
(* Sorting helpers *)

RECURSIVE InsertStable(_, _, _)
\* insert index x into the sorted sequence s after every element whose key is <= key[x]
InsertStable(s, x, key) ==
    IF s = <<>> THEN <<x>>
    ELSE IF key[Head(s)] <= key[x]
         THEN <<Head(s)>> \o InsertStable(Tail(s), x, key)
         ELSE <<x>> \o s

RECURSIVE StableSortBy(_, _)
\* a stable sort of the sequence of indices perm by key
StableSortBy(perm, key) ==
    IF perm = <<>> THEN <<>>
    ELSE InsertStable(StableSortBy(SubSeq(perm, 1, Len(perm) - 1), key),
                      perm[Len(perm)], key)

RECURSIVE Arange(_)
Arange(n) == IF n <= 0 THEN <<>> ELSE Arange(n - 1) \o <<n - 1>>

\* the orders a build's np.argsort can leave n equal costs in: the default
\* kind ('quicksort') is not stable, its order of ties depends on the build
TieOrders(n) ==
    {p \in [1 .. n -> Idx(n)] : \A i, j \in 1 .. n : p[i] = p[j] => i = j}

\* a variant of argsort: the targets in index order, whatever they cost
argsort_unsorted(costs, n) == Arange(n)

\* np.argsort(costs): ascending cost, equal costs in the build's order
argsort(costs, n) == StableSortBy(tie_order, costs)

RECURSIVE lexsort_from(_, _)
\* np.lexsort(keys): one stable pass per key, first key first, so the LAST key is primary
lexsort_from(keys, perm) ==
    IF keys = <<>> THEN perm
    ELSE lexsort_from(Tail(keys), StableSortBy(perm, Head(keys)))

lexsort(keys, n) == lexsort_from(keys, Arange(n))

----------------------------------------------------------------------------
(* compute_cost_matrix *)

Sq(x) == x * x
color_dist(a, b) == Sq(a[1] - b[1]) + Sq(a[2] - b[2]) + Sq(a[3] - b[3])
spatial_dist(a, b) == Sq(a[1] - b[1]) + Sq(a[2] - b[2])

compute_cost_matrix(sf, sp, tf, tp, p) ==
    [i \in DOMAIN sf |-> [j \in DOMAIN tf |->
        (PDen - p) * color_dist(sf[i], tf[j]) * Sq(2 * GridRes)
        + p * spatial_dist(sp[i], tp[j]) * Sq(ChanDen)]]

----------------------------------------------------------------------------
(* strategy "sort" *)

luminance(f) == [i \in DOMAIN f |-> 299 * f[i][1] + 587 * f[i][2] + 114 * f[i][3]]
column(pos, c) == [i \in DOMAIN pos |-> pos[i][c]]

\* a variant of sort_keys: the keys handed to lexsort in the order (lum, y, x),
\* which makes x the primary key
sort_keys_reversed(features, pos, n) ==
    lexsort(<<luminance(features), column(pos, 1), column(pos, 2)>>, n)

sort_keys(features, pos, n) ==
    lexsort(<<column(pos, 2), column(pos, 1), luminance(features)>>, n)

sort_assignment(sf, sp, tf, tp, n) ==
    LET src_keys == sort_keys(sf, sp, n)
        tgt_keys == sort_keys(tf, tp, n)
        zeros == [i \in Idx(n) |-> 0]
    IN [i \in Idx(n) |->
          IF \E r \in 1 .. n : src_keys[r] = i
          THEN tgt_keys[CHOOSE r \in 1 .. n : src_keys[r] = i]
          ELSE zeros[i]]

----------------------------------------------------------------------------
(* strategy "optimal": scipy.optimize.linear_sum_assignment, the shortest   *)
(* augmenting path algorithm (Crouse's variant of Jonker-Volgenant) on the  *)
(* square cost matrix.                                                      *)

INFINITY == 1000000

RECURSIVE ap_scan(_, _, _, _)
\* the scan of the remaining columns from row w.i; a = [path, spc, lowest, index]
ap_scan(it, c, w, a) ==
    IF it >= w.num_remaining THEN a
    ELSE LET j == w.remaining[it]
             r == w.minVal + c.cost[w.i][j] - c.u[w.i] - c.v[j]
             better == r < a.spc[j]
             path1 == IF better THEN [a.path EXCEPT ![j] = w.i] ELSE a.path
             spc1 == IF better THEN [a.spc EXCEPT ![j] = r] ELSE a.spc
             take == \/ spc1[j] < a.lowest
                     \/ (spc1[j] = a.lowest /\ c.row4col[j] = -1)
         IN ap_scan(it + 1, c, w,
                    [path |-> path1, spc |-> spc1,
                     lowest |-> IF take THEN spc1[j] ELSE a.lowest,
                     index |-> IF take THEN it ELSE a.index])

RECURSIVE ap_while(_, _)
\* the search for a sink; w = [i, minVal, remaining, num_remaining, path, spc, SR, SC]
ap_while(c, w) ==
    LET SR1 == [w.SR EXCEPT ![w.i] = TRUE]
        a == ap_scan(0, c, w, [path |-> w.path, spc |-> w.spc,
                               lowest |-> INFINITY, index |-> -1])
        j == w.remaining[a.index]
        left == w.num_remaining - 1
        SC1 == [w.SC EXCEPT ![j] = TRUE]
        done == [sink |-> j, minVal |-> a.lowest, path |-> a.path,
                 spc |-> a.spc, SR |-> SR1, SC |-> SC1]
    IN IF a.lowest = INFINITY
       THEN [sink |-> -1, minVal |-> a.lowest, path |-> a.path,
             spc |-> a.spc, SR |-> SR1, SC |-> w.SC]
       ELSE IF c.row4col[j] = -1 THEN done
       ELSE ap_while(c, [i |-> c.row4col[j], minVal |-> a.lowest,
                         remaining |-> [w.remaining EXCEPT ![a.index] = w.remaining[left]],
                         num_remaining |-> left, path |-> a.path, spc |-> a.spc,
                         SR |-> SR1, SC |-> SC1])

augmenting_path(n, c, path, curRow) ==
    ap_while(c, [i |-> curRow, minVal |-> 0,
                 remaining |-> [it \in Idx(n) |-> n - it - 1],
                 num_remaining |-> n, path |-> path,
                 spc |-> [j \in Idx(n) |-> INFINITY],
                 SR |-> [i \in Idx(n) |-> FALSE],
                 SC |-> [j \in Idx(n) |-> FALSE]])

RECURSIVE augment(_, _, _, _, _)
\* flip the matching along the path from the sink back to curRow
augment(j, curRow, path, row4col, col4row) ==
    LET i == path[j]
        r1 == [row4col EXCEPT ![j] = i]
        c1 == [col4row EXCEPT ![i] = j]
    IN IF i = curRow THEN [row4col |-> r1, col4row |-> c1]
       ELSE augment(col4row[i], curRow, path, r1, c1)

RECURSIVE lsap_rows(_, _, _, _)
\* one augmentation per row; s = [u, v, path, col4row, row4col]
lsap_rows(curRow, n, cost, s) ==
    IF curRow >= n THEN s
    ELSE LET ap == augmenting_path(n, [cost |-> cost, u |-> s.u, v |-> s.v,
                                       row4col |-> s.row4col], s.path, curRow)
             u1 == [i \in Idx(n) |->
                      IF i = curRow THEN s.u[i] + ap.minVal
                      ELSE IF ap.SR[i] THEN s.u[i] + ap.minVal - ap.spc[s.col4row[i]]
                      ELSE s.u[i]]
             v1 == [j \in Idx(n) |->
                      IF ap.SC[j] THEN s.v[j] - (ap.minVal - ap.spc[j]) ELSE s.v[j]]
             m == augment(ap.sink, curRow, ap.path, s.row4col, s.col4row)
         IN lsap_rows(curRow + 1, n, cost,
                      [u |-> u1, v |-> v1, path |-> ap.path,
                       col4row |-> m.col4row, row4col |-> m.row4col])

\* returns col_ind; row_ind is 0..n-1
linear_sum_assignment(cost, n) ==
    lsap_rows(0, n, cost,
              [u |-> [i \in Idx(n) |-> 0], v |-> [j \in Idx(n) |-> 0],
               path |-> [j \in Idx(n) |-> -1],
               col4row |-> [i \in Idx(n) |-> -1],
               row4col |-> [j \in Idx(n) |-> -1]]).col4row

\* a variant of optimal_assignment: assignment[row_ind] = row_ind
optimal_assignment_rows(cost, n) == [i \in Idx(n) |-> i]

optimal_assignment(cost, n) ==
    LET col_ind == linear_sum_assignment(cost, n)
    IN [i \in Idx(n) |-> col_ind[i]]

----------------------------------------------------------------------------
(* strategies "greedy" and "approx": the body of one loop iteration *)

\* a variant of first_free: the cheapest target, claimed or not
first_free_unchecked(sorted_targets, taken) ==
    IF sorted_targets = <<>> THEN -1 ELSE Head(sorted_targets)

RECURSIVE first_free(_, _)
\* for t in sorted_targets: if t not in taken_targets: ... break
first_free(sorted_targets, taken) ==
    IF sorted_targets = <<>> THEN -1
    ELSE IF Head(sorted_targets) \notin taken THEN Head(sorted_targets)
    ELSE first_free(Tail(sorted_targets), taken)

claim_target(cost_matrix, i, n, taken) ==
    first_free(argsort(cost_matrix[i], n), taken)

----------------------------------------------------------------------------
(* solve_assignment *)

N == Cardinality(DOMAIN src_features)

cost_matrix ==
    compute_cost_matrix(src_features, src_pos, tgt_features, tgt_pos,
                        proximity_importance)

Empty == [i \in {} |-> 0]

identity(n) == [i \in Idx(n) |-> i]
reversal(n) == [i \in Idx(n) |-> n - 1 - i]

InitSolver ==
    /\ \E n \in 0 .. MaxN :
         /\ src_features \in [Idx(n) -> Palette]
         /\ tgt_features \in [Idx(n) -> Palette]
         /\ src_pos \in Layouts(n)
         /\ tgt_pos \in Layouts(n)
    /\ algorithm \in Algorithms \cup UnknownAlgorithms
    /\ tie_order \in IF algorithm \in {"greedy", "approx"}
                     THEN TieOrders(N) ELSE {Arange(N)}
    /\ proximity_importance \in PValues
    /\ pc = "call"
    /\ assignment = Empty
    /\ taken_targets = {}
    /\ source_indices = <<>>
    /\ visit = 0
    /\ result = NoResult

InitRng ==
    /\ py_random \in RngStates
    /\ np_random = seed_state(0)

\* the parts of the state a specification does not use
IdleCalls ==
    /\ calls = 1
    /\ first_result = NoResult
    /\ rng_at_call = <<py_random, np_random>>

IdleFrames ==
    /\ src_cells = Empty /\ tgt_cells = Empty
    /\ duration = 0 /\ fps = 0 /\ jitter_amount = 0 /\ particle_scale = 0
    /\ shape = "square" /\ color_mix = [num |-> 0, den |-> 1]
    /\ hold_start = 0 /\ hold_end = 0
    /\ gen_pc = "idle"
    /\ num_frames = 0 /\ start_hold_frames = 0 /\ end_hold_frames = 0
    /\ jitter_offsets = Empty /\ src_particles = <<>> /\ tgt_particles = <<>>
    /\ loop_i = 0
    /\ pending = NoFrame /\ written = <<>>
    /\ preview = FALSE /\ shown = <<>> /\ window = "none"

IdleInv ==
    /\ inv_pc = <<>> /\ inv_seed = <<>> /\ inv_order = <<>> /\ inv_i = <<>>
    /\ inv_jitter = <<>>

\* get_cells is not being called
IdleCells ==
    /\ image = [shape |-> <<0, 0>>, data |-> <<>>]
    /\ grid_res = 1
    /\ cells_pc = "idle"
    /\ cells = NoArray /\ positions = Empty /\ cells_error = NoResult

Init == InitSolver /\ InitRng /\ IdleCalls /\ IdleFrames /\ IdleInv /\ IdleCells

inputsUnchanged ==
    UNCHANGED <<algorithm, src_features, src_pos, tgt_features, tgt_pos,
                proximity_importance, tie_order>>

SolveSort ==
    /\ pc = "call"
    /\ algorithm = "sort"
    /\ result' = sort_assignment(src_features, src_pos, tgt_features, tgt_pos, N)
    /\ pc' = "returned"
    /\ inputsUnchanged
    /\ UNCHANGED <<assignment, taken_targets, source_indices, visit, rngVars, callVars, frameVars, invVars, cellVars>>

SolveOptimal ==
    /\ pc = "call"
    /\ algorithm = "optimal"
    /\ result' = optimal_assignment(cost_matrix, N)
    /\ pc' = "returned"
    /\ inputsUnchanged
    /\ UNCHANGED <<assignment, taken_targets, source_indices, visit, rngVars, callVars, frameVars, invVars, cellVars>>

GreedyStart ==
    /\ pc = "call"
    /\ algorithm = "greedy"
    /\ assignment' = [i \in Idx(N) |-> -1]
    /\ taken_targets' = {}
    /\ LET sh == shuffle([i \in Idx(N) |-> i], N, py_random)
       IN /\ source_indices' = [r \in 1 .. N |-> sh.list[r - 1]]
          /\ py_random' = sh.state
    /\ visit' = 0
    /\ pc' = "greedy_loop"
    /\ inputsUnchanged
    /\ UNCHANGED <<result, np_random, callVars, frameVars, invVars, cellVars>>

GreedyVisit ==
    /\ pc = "greedy_loop"
    /\ visit < N
    /\ LET i == source_indices[visit + 1]
           t == claim_target(cost_matrix, i, N, taken_targets)
       IN IF t = -1
          THEN UNCHANGED <<assignment, taken_targets>>
          ELSE /\ assignment' = [assignment EXCEPT ![i] = t]
               /\ taken_targets' = taken_targets \cup {t}
    /\ visit' = visit + 1
    /\ inputsUnchanged
    /\ UNCHANGED <<pc, source_indices, result, rngVars, callVars, frameVars, invVars, cellVars>>

\* a variant of ApproxStart: the shuffle of greedy, left in by mistake
ApproxStartShuffling ==
    /\ pc = "call"
    /\ algorithm = "approx"
    /\ assignment' = [i \in Idx(N) |-> -1]
    /\ taken_targets' = {}
    /\ py_random' = shuffle(identity(N), N, py_random).state
    /\ visit' = 0
    /\ pc' = "approx_loop"
    /\ inputsUnchanged
    /\ UNCHANGED <<source_indices, result, np_random, callVars, frameVars, invVars, cellVars>>

ApproxStart ==
    /\ pc = "call"
    /\ algorithm = "approx"
    /\ assignment' = [i \in Idx(N) |-> -1]
    /\ taken_targets' = {}
    /\ visit' = 0
    /\ pc' = "approx_loop"
    /\ inputsUnchanged
    /\ UNCHANGED <<source_indices, result, rngVars, callVars, frameVars, invVars, cellVars>>

ApproxVisit ==
    /\ pc = "approx_loop"
    /\ visit < N
    /\ LET i == visit
           t == claim_target(cost_matrix, i, N, taken_targets)
       IN IF t = -1
          THEN UNCHANGED <<assignment, taken_targets>>
          ELSE /\ assignment' = [assignment EXCEPT ![i] = t]
               /\ taken_targets' = taken_targets \cup {t}
    /\ visit' = visit + 1
    /\ inputsUnchanged
    /\ UNCHANGED <<pc, source_indices, result, rngVars, callVars, frameVars, invVars, cellVars>>

LoopReturn ==
    /\ pc \in {"greedy_loop", "approx_loop"}
    /\ visit = N
    /\ result' = assignment
    /\ pc' = "returned"
    /\ inputsUnchanged
    /\ UNCHANGED <<assignment, taken_targets, source_indices, visit, rngVars, callVars, frameVars, invVars, cellVars>>

\* a variant of RaiseUnknown: the else branch returns an array of -1
RaiseUnknownReturning ==
    /\ pc = "call"
    /\ algorithm \notin Algorithms
    /\ result' = [i \in Idx(N) |-> -1]
    /\ pc' = "returned"
    /\ inputsUnchanged
    /\ UNCHANGED <<assignment, taken_targets, source_indices, visit, rngVars, callVars, frameVars, invVars, cellVars>>

RaiseUnknown ==
    /\ pc = "call"
    /\ algorithm \notin Algorithms
    /\ pc' = "raised"
    /\ inputsUnchanged
    /\ UNCHANGED <<assignment, taken_targets, source_indices, visit, result, rngVars, callVars, frameVars, invVars, cellVars>>

Next ==
    \/ SolveSort
    \/ SolveOptimal
    \/ GreedyStart
    \/ GreedyVisit
    \/ ApproxStart
    \/ ApproxVisit
    \/ LoopReturn
    \/ RaiseUnknown

Spec == Init /\ [][Next]_vars

----------------------------------------------------------------------------
(* Helpers of the properties *)

IsPermutation(a, n) ==
    /\ DOMAIN a = Idx(n)
    /\ \A j \in Idx(n) : Cardinality({i \in Idx(n) : a[i] = j}) = 1

Bijections(n) == {a \in [Idx(n) -> Idx(n)] : \A i, j \in Idx(n) : a[i] = a[j] => i = j}

RECURSIVE SumUpTo(_, _)
SumUpTo(f, n) == IF n <= 0 THEN 0 ELSE f[n - 1] + SumUpTo(f, n - 1)

TotalCost(cost, a, n) == SumUpTo([i \in Idx(n) |-> cost[i][a[i]]], n)


----------------------------------------------------------------------------
(* Exact fractions [num, den], den > 0, in lowest terms: values as they are  *)
(* written on the command line, before float() parses them                  *)

RECURSIVE GCD(_, _)
GCD(a, b) == IF b = 0 THEN a ELSE GCD(b, a % b)

Abs(x) == IF x < 0 THEN -x ELSE x

Rat(n, d) == LET g == GCD(Abs(n), d) IN [num |-> n \div g, den |-> d \div g]

\* float("num/den" written as a decimal): the nearest binary64
float_of(q) == f64(q.num, q.den)

----------------------------------------------------------------------------
(* np.linspace and the grid of cell centres (core.py 84-89)                 *)

\* np.linspace(start, stop, num), num >= 1, endpoint included:
\* step = (stop - start) / (num - 1); y = arange(num) * step + start;
\* y[-1] = stop
linspace(start, stop, num) ==
    LET delta == f64_sub(stop, start)
        step == f64_div_int(delta, num - 1)
    IN [i \in 1 .. num |->
          IF num > 1 /\ i = num THEN stop
          ELSE IF num = 1 THEN f64_add(f64_mul(f64_zero, delta), start)
          ELSE IF step = f64_zero
          THEN f64_add(f64_mul(f64_div_int(f64_from_int(i - 1), num - 1), delta), start)
          ELSE f64_add(f64_mul(f64_from_int(i - 1), step), start)]

\* ys = np.linspace(0.5 / grid_res, 1.0 - 0.5 / grid_res, grid_res), res >= 1
grid_coords(res) ==
    LET first == f64_div_int(f64(1, 2), res)
    IN linspace(first, f64_sub(f64_from_int(1), first), res)

\* lines 84-89: linspace twice, meshgrid(indexing='ij'), ravel, stack
cell_positions(res) ==
    LET ys == grid_coords(res)
        xs == grid_coords(res)
    IN [k \in Idx(res * res) |-> <<ys[(k \div res) + 1], xs[(k % res) + 1]>>]

----------------------------------------------------------------------------
(* generate_frames and save_video (animate.py)                              *)
(*   - duration, hold_start, hold_end are given in units of 1/TimeDen       *)
(*     second, jitter_amount in units of 1/JitDen, particle_scale of        *)
(*     1/ScaleDen, and are parsed to floats where the code computes         *)
(*   - a grid coordinate is given by its odd numerator n over 2 * GridRes   *)
(*     and is the float get_cells computed for it                           *)
(*   - a cell's pixels are not modelled: cell i of the source is            *)
(*     <<"src", i>>, cell j of the target <<"tgt", j>>; a frame is the      *)
(*     list of what is pasted where                                         *)

TimeDen == 4
MaxDuration == 4
MaxHold == 3
MaxFps == 3
JitDen == 2
ScaleDen == 2
GenCells == 2

\* cli.py: OUTPUT_SIZE = 512, then the largest multiple of the resolution
OUTPUT_SIZE == 512
output_size == (OUTPUT_SIZE \div GridRes) * GridRes

ColorMixes == {Rat(0, 1), Rat(1, 100), Rat(1, 1)}
JitterAmounts == {0, 1}

\* t * t * (3 - 2 * t)
ease_in_out(t) ==
    f64_mul(f64_mul(t, t), f64_sub(f64_from_int(3), f64_mul(f64_from_int(2), t)))

\* math.pi = 0x1.921fb54442d18p+1
math_pi == f64_bits(1, 105414357, 4467992, -51)

\* math.sin at the arguments math.pi * (a / b), 0 < a <= b <= 8, as the C
\* library computes it: <<argument, sine>>, by ascending argument
sin_table ==
  {
    <<f64_bits(1, 105414357, 4467992, -54),
      f64_bits(1, 102725801, 45001059, -54)>>,
    <<f64_bits(1, 120473550, 62628160, -54),
      f64_bits(1, 116469779, 24226753, -54)>>,
    <<f64_bits(1, 70276238, 2978661, -53),
      f64_bits(1, 134217727, 67108863, -54)>>,
    <<f64_bits(1, 84331485, 43839712, -53),
      f64_bits(1, 78891201, 7690846, -53)>>,
    <<f64_bits(1, 105414357, 4467992, -53),
      f64_bits(1, 94906265, 41892812, -53)>>,
    <<f64_bits(1, 120473550, 62628160, -53),
      f64_bits(1, 104935645, 17161803, -53)>>,
    <<f64_bits(1, 70276238, 2978661, -52),
      f64_bits(1, 116235962, 5786794, -53)>>,
    <<f64_bits(1, 79060767, 53682642, -52),
      f64_bits(1, 124001011, 53644614, -53)>>,
    <<f64_bits(1, 84331485, 43839712, -52),
      f64_bits(1, 127648644, 54809855, -53)>>,
    <<f64_bits(1, 90355163, 13416688, -52),
      f64_bits(1, 130852609, 22604137, -53)>>,
    <<f64_bits(1, 105414357, 4467992, -52),
      f64_bits(1, 67108864, 0, -52)>>,
    <<f64_bits(1, 120473550, 62628160, -52),
      f64_bits(1, 130852609, 22604137, -53)>>,
    <<f64_bits(1, 126497228, 32205136, -52),
      f64_bits(1, 127648644, 54809856, -53)>>,
    <<f64_bits(1, 131767946, 22362206, -52),
      f64_bits(1, 124001011, 53644614, -53)>>,
    <<f64_bits(1, 70276238, 2978661, -51),
      f64_bits(1, 116235962, 5786795, -53)>>,
    <<f64_bits(1, 75295969, 22365384, -51),
      f64_bits(1, 104935645, 17161804, -53)>>,
    <<f64_bits(1, 79060767, 53682642, -51),
      f64_bits(1, 94906265, 41892813, -53)>>,
    <<f64_bits(1, 84331485, 43839712, -51),
      f64_bits(1, 78891201, 7690847, -53)>>,
    <<f64_bits(1, 87845297, 37277759, -51),
      f64_bits(1, 134217727, 67108863, -54)>>,
    <<f64_bits(1, 90355163, 13416688, -51),
      f64_bits(1, 116469779, 24226755, -54)>>,
    <<f64_bits(1, 92237562, 29075317, -51),
      f64_bits(1, 102725801, 45001061, -54)>>,
    <<f64_bits(1, 105414357, 4467992, -51),
      f64_bits(1, 74025356, 51665927, -105)>>
  }

\* math.sin(x); sin(0.0) = 0.0
math_sin(x) ==
    IF x = f64_zero THEN f64_zero
    ELSE (CHOOSE p \in sin_table : p[1] = x)[2]

\* top = (current_pos_norm * output_size - part / 2).astype(int), one axis, one
\* cell (lines 91-106)
placement(t, start, end, off, part) ==
    LET t_smooth == ease_in_out(t)
        current_pos_norm ==
            f64_add(f64_mul(f64_sub(f64_from_int(1), t_smooth), start),
                    f64_mul(t_smooth, end))
        jitter_amp == math_sin(f64_mul(math_pi, t))
        jittered == f64_add(current_pos_norm, f64_mul(off, jitter_amp))
        cy == f64_mul(jittered, f64_from_int(output_size))
    IN f64_trunc(f64_sub(cy, f64_div_int(f64_from_int(part), 2)))

\* create_particle: the cell resampled to w x h, masked to a disc for 'circle'
create_particle(cell_data, w, h, shape_type) ==
    [cell |-> cell_data, w |-> w, h |-> h, shape |-> shape_type]

cell_side == output_size \div GridRes
part_size(scale) ==
    LET raw == f64_trunc(f64_mul(f64_from_int(cell_side), f64(scale, ScaleDen)))
    IN IF raw < 1 THEN 1 ELSE raw

\* the grid coordinate of numerator n: ys[(n - 1) / 2]
pos_of(n) == grid_coords(GridRes)[(n - 1) \div 2 + 1]

\* tgt_pos[assignment] and tgt_cells[assignment] (lines 45 and 48): one row per
\* entry of assignment; an entry outside the indexed array is an IndexError
index_ok ==
    \A k \in DOMAIN assignment :
        assignment[k] \in DOMAIN tgt_pos /\ assignment[k] \in DOMAIN tgt_cells
end_pos == [k \in DOMAIN assignment |-> tgt_pos[assignment[k]]]
assigned_tgt_cells == [k \in DOMAIN assignment |-> tgt_cells[assignment[k]]]

\* numpy broadcasting of the leading axis of two arrays: equal lengths, or a
\* length of 1 stretched to the other; -1 when the shapes do not broadcast
broadcast_len(a, b) ==
    IF a = b THEN a ELSE IF a = 1 THEN b ELSE IF b = 1 THEN a ELSE -1

\* the row of a (possibly stretched) array that broadcasting pairs with row i
broadcast_row(arr, i) == IF Cardinality(DOMAIN arr) = 1 THEN arr[0] ELSE arr[i]

\* number of rows of current_pos_norm (line 94)
pos_rows == broadcast_len(Cardinality(DOMAIN src_pos), Cardinality(DOMAIN end_pos))

\* render_frame raises nothing: line 94 broadcasts, the in-place += of line 98
\* fits jitter_offsets (N rows) into current_pos_norm, and top[i], left[i]
\* exist for every i in range(N)
render_ok ==
    /\ pos_rows # -1
    /\ Cardinality(DOMAIN src_cells) = pos_rows \/ Cardinality(DOMAIN src_cells) = 1

\* render_frame(t): what is pasted, and where, for every cell in drawing order
render_frame(t) ==
    LET n == Cardinality(DOMAIN src_cells)
        part == part_size(particle_scale)
        current_mix == f64_mul(ease_in_out(t), float_of(color_mix))
    IN [i \in Idx(n) |->
          [top |-> placement(t, pos_of(broadcast_row(src_pos, i)[1]),
                             pos_of(broadcast_row(end_pos, i)[1]),
                             jitter_offsets[i][1], part),
           left |-> placement(t, pos_of(broadcast_row(src_pos, i)[2]),
                              pos_of(broadcast_row(end_pos, i)[2]),
                              jitter_offsets[i][2], part),
           p |-> IF color_mix.num > 0 /\ f64_less(f64(1, 100), current_mix)
                 THEN [blend |-> <<src_particles[i + 1], tgt_particles[i + 1]>>,
                       alpha |-> current_mix]
                 ELSE src_particles[i + 1]]]

RECURSIVE rand_from(_, _)
\* np.random.rand: k values in a row; [values, state]
rand_from(k, s) ==
    IF k <= 0 THEN [values |-> <<>>, state |-> s]
    ELSE LET rest == rand_from(k - 1, s)
             d == random_sample(rest.state)
         IN [values |-> Append(rest.values, d.value), state |-> d.state]

\* (np.random.rand(N, 2) - 0.5) * 2 * jitter_amount
draw_jitter(n, s, amount) ==
    LET d == rand_from(2 * n, s)
        off(v) == f64_mul(f64_mul(f64_sub(v, f64(1, 2)), f64_from_int(2)),
                          f64(amount, JitDen))
    IN [offsets |-> [i \in Idx(n) |-> <<off(d.values[2 * i + 1]), off(d.values[2 * i + 2])>>],
        state |-> d.state]

GenN == Cardinality(DOMAIN src_cells)

IdleSolver ==
    /\ algorithm = "sort"
    /\ src_features = Empty /\ tgt_features = Empty
    /\ proximity_importance = 0
    /\ pc = "idle"
    /\ taken_targets = {} /\ source_indices = <<>> /\ visit = 0
    /\ result = NoResult
    /\ tie_order = <<>>

\* the call generate_frames(...): a generator object, none of its body has run
InitFrames ==
    /\ src_cells = [i \in Idx(GenCells) |-> <<"src", i>>]
    /\ tgt_cells = [i \in Idx(GenCells) |-> <<"tgt", i>>]
    /\ src_pos = RowMajor(GenCells)
    /\ tgt_pos = RowMajor(GenCells)
    /\ assignment = reversal(GenCells)
    /\ duration \in 1 .. MaxDuration
    /\ hold_start \in {0, MaxHold}
    /\ hold_end \in {0, MaxHold}
    /\ fps \in 1 .. MaxFps
    /\ jitter_amount \in JitterAmounts
    /\ particle_scale = 1
    /\ shape = "circle"
    /\ color_mix \in ColorMixes
    /\ gen_pc = "created"
    /\ num_frames = 0 /\ start_hold_frames = 0 /\ end_hold_frames = 0
    /\ jitter_offsets = Empty /\ src_particles = <<>> /\ tgt_particles = <<>>
    /\ loop_i = 0
    /\ pending = NoFrame /\ written = <<>>
    /\ preview \in BOOLEAN /\ shown = <<>>
    /\ window = IF preview THEN "open" ELSE "none"
    /\ py_random = seed_state(0)
    \* with no jitter the offsets are 0 whatever numpy's generator yields
    /\ np_random \in IF jitter_amount = 0 THEN {seed_state(0)} ELSE RngStates

InitGen == InitFrames /\ IdleSolver /\ IdleCalls /\ IdleInv /\ IdleCells

genUnchanged == UNCHANGED <<solverVars, py_random, callVars, genArgs, invVars, cellVars>>

\* the first next(): lines 40-80, up to the loop that makes the particles
GenStart ==
    /\ gen_pc = "created"
    /\ pending = NoFrame
    /\ index_ok
    /\ num_frames' = f64_trunc(f64_mul(f64(duration, TimeDen), f64_from_int(fps)))
    /\ start_hold_frames' = f64_trunc(f64_mul(f64(hold_start, TimeDen), f64_from_int(fps)))
    /\ end_hold_frames' = f64_trunc(f64_mul(f64(hold_end, TimeDen), f64_from_int(fps)))
    /\ LET j == draw_jitter(GenN, np_random, jitter_amount)
       IN /\ jitter_offsets' = j.offsets
          /\ np_random' = j.state
    /\ src_particles' = <<>>
    /\ tgt_particles' = <<>>
    /\ loop_i' = 0
    /\ gen_pc' = "precompute"
    /\ genUnchanged
    /\ UNCHANGED writerVars

\* a variant of Precompute: the target particle made whatever color_mix is
PrecomputeUnguarded ==
    /\ gen_pc = "precompute"
    /\ loop_i < GenN
    /\ LET part == part_size(particle_scale)
       IN /\ src_particles' =
               Append(src_particles, create_particle(src_cells[loop_i], part, part, shape))
          /\ tgt_particles' =
               Append(tgt_particles,
                      create_particle(tgt_cells[assignment[loop_i]], part, part, shape))
    /\ loop_i' = loop_i + 1
    /\ genUnchanged
    /\ UNCHANGED <<gen_pc, num_frames, start_hold_frames, end_hold_frames,
                   jitter_offsets, np_random, writerVars>>

\* one iteration of `for i in range(N)` (lines 82-85)
Precompute ==
    /\ gen_pc = "precompute"
    /\ loop_i < GenN
    /\ color_mix.num > 0 => loop_i \in DOMAIN assigned_tgt_cells
    /\ LET part == part_size(particle_scale)
       IN /\ src_particles' =
               Append(src_particles, create_particle(src_cells[loop_i], part, part, shape))
          /\ tgt_particles' =
               IF color_mix.num > 0
               THEN Append(tgt_particles,
                           create_particle(assigned_tgt_cells[loop_i], part, part, shape))
               ELSE tgt_particles
    /\ loop_i' = loop_i + 1
    /\ genUnchanged
    /\ UNCHANGED <<gen_pc, num_frames, start_hold_frames, end_hold_frames,
                   jitter_offsets, np_random, writerVars>>

\* a variant of PrecomputeDone: the loop left one cell early
PrecomputeDoneEarly ==
    /\ gen_pc = "precompute"
    /\ loop_i >= GenN - 1
    /\ gen_pc' = "hold_start"
    /\ loop_i' = 0
    /\ genUnchanged
    /\ UNCHANGED <<num_frames, start_hold_frames, end_hold_frames, jitter_offsets,
                   src_particles, tgt_particles, np_random, writerVars>>

PrecomputeDone ==
    /\ gen_pc = "precompute"
    /\ loop_i = GenN
    /\ gen_pc' = "hold_start"
    /\ loop_i' = 0
    /\ genUnchanged
    /\ UNCHANGED <<num_frames, start_hold_frames, end_hold_frames, jitter_offsets,
                   src_particles, tgt_particles, np_random, writerVars>>

genYieldUnchanged ==
    /\ genUnchanged
    /\ UNCHANGED <<num_frames, start_hold_frames, end_hold_frames, jitter_offsets,
                   src_particles, tgt_particles, np_random, written, preview,
                   shown, window>>

T0 == f64_zero
T1 == f64_from_int(1)

\* 1. Hold Start (lines 126-129): first_frame = render_frame(0.0), yielded again and again
YieldHoldStart ==
    /\ gen_pc = "hold_start"
    /\ pending = NoFrame
    /\ loop_i < start_hold_frames
    /\ render_ok
    /\ pending' = [phase |-> "hold_start", t |-> T0, image |-> render_frame(T0),
                   seq |-> Len(written) + Len(shown)]
    /\ loop_i' = loop_i + 1
    /\ UNCHANGED gen_pc
    /\ genYieldUnchanged

HoldStartDone ==
    /\ gen_pc = "hold_start"
    /\ pending = NoFrame
    /\ loop_i >= start_hold_frames
    /\ gen_pc' = "animate"
    /\ loop_i' = 0
    /\ UNCHANGED pending
    /\ genYieldUnchanged

\* a variant of frame_time: time running backwards
frame_time_reversed(f, frames) ==
    IF frames > 1 THEN f64(frames - 1 - f, frames - 1) ELSE T1

\* t = f / (num_frames - 1) if num_frames > 1 else 1.0
frame_time(f, frames) == IF frames > 1 THEN f64(f, frames - 1) ELSE T1

\* 2. Animation (lines 132-134)
YieldAnimated ==
    /\ gen_pc = "animate"
    /\ pending = NoFrame
    /\ loop_i < num_frames
    /\ render_ok
    /\ LET t == frame_time(loop_i, num_frames)
       IN pending' = [phase |-> "animate", t |-> t, image |-> render_frame(t),
                      seq |-> Len(written) + Len(shown)]
    /\ loop_i' = loop_i + 1
    /\ UNCHANGED gen_pc
    /\ genYieldUnchanged

AnimationDone ==
    /\ gen_pc = "animate"
    /\ pending = NoFrame
    /\ loop_i >= num_frames
    /\ gen_pc' = "hold_end"
    /\ loop_i' = 0
    /\ UNCHANGED pending
    /\ genYieldUnchanged

\* 3. Hold End (lines 137-140)
YieldHoldEnd ==
    /\ gen_pc = "hold_end"
    /\ pending = NoFrame
    /\ loop_i < end_hold_frames
    /\ render_ok
    /\ pending' = [phase |-> "hold_end", t |-> T1, image |-> render_frame(T1),
                   seq |-> Len(written) + Len(shown)]
    /\ loop_i' = loop_i + 1
    /\ UNCHANGED gen_pc
    /\ genYieldUnchanged

\* the generator returns: StopIteration ends the writer's for loop
HoldEndDone ==
    /\ gen_pc = "hold_end"
    /\ pending = NoFrame
    /\ loop_i >= end_hold_frames
    /\ gen_pc' = "exhausted"
    /\ UNCHANGED <<pending, loop_i>>
    /\ genYieldUnchanged

\* save_video: writer.append_data(frame) (lines 154-155 and 158-159)
append_data ==
    /\ ~preview
    /\ pending # NoFrame
    /\ written' = Append(written, pending)
    /\ pending' = NoFrame
    /\ genUnchanged
    /\ UNCHANGED <<genLocals, np_random, preview, shown, window>>

\* show_preview, update_frame (gui.py 22-38): frame = next(gen) is put on the
\* label; nothing is written
update_frame ==
    /\ preview /\ window = "open"
    /\ pending # NoFrame
    /\ shown' = Append(shown, pending)
    /\ pending' = NoFrame
    /\ genUnchanged
    /\ UNCHANGED <<genLocals, np_random, written, preview, window>>

\* update_frame, except StopIteration (gui.py 40-47): root.after(2000, root.destroy)
PreviewFinished ==
    /\ preview /\ window = "open"
    /\ gen_pc = "exhausted"
    /\ window' = "finished"
    /\ genUnchanged
    /\ UNCHANGED <<genLocals, np_random, pending, written, preview, shown>>

\* update_frame, except Exception (gui.py 48-50): what the generator raised is
\* printed and goes no further; root.destroy()
PreviewError ==
    /\ preview /\ window = "open"
    /\ gen_pc = "raised"
    /\ window' = "destroyed"
    /\ genUnchanged
    /\ UNCHANGED <<genLocals, np_random, pending, written, preview, shown>>

NextGen ==
    \/ GenStart
    \/ Precompute
    \/ PrecomputeDone
    \/ YieldHoldStart
    \/ HoldStartDone
    \/ YieldAnimated
    \/ AnimationDone
    \/ YieldHoldEnd
    \/ HoldEndDone
    \/ append_data
    \/ update_frame
    \/ PreviewFinished

SpecFrames == InitGen /\ [][NextGen]_vars

----------------------------------------------------------------------------
(* generate_frames called with arrays whose lengths are not all the same.   *)
(* The function has no check of its arguments: what happens is what numpy   *)
(* indexing and broadcasting do with the shapes.                            *)

\* the five arrays have one length
lengths_agree ==
    /\ Cardinality(DOMAIN src_pos) = GenN
    /\ Cardinality(DOMAIN tgt_pos) = GenN
    /\ Cardinality(DOMAIN tgt_cells) = GenN
    /\ Cardinality(DOMAIN assignment) = GenN

InitLengths ==
    /\ \E n \in 1 .. GenCells : src_cells = [i \in Idx(n) |-> <<"src", i>>]
    /\ \E n \in 1 .. GenCells : tgt_cells = [i \in Idx(n) |-> <<"tgt", i>>]
    /\ \E n \in 1 .. GenCells : src_pos = RowMajor(n)
    /\ tgt_pos = RowMajor(GenCells)
    /\ \E n \in 1 .. GenCells : assignment \in {identity(n), reversal(n)}
    /\ duration = MaxDuration
    /\ hold_start \in {0, MaxHold}
    /\ hold_end \in {0, MaxHold}
    /\ fps = MaxFps
    /\ jitter_amount \in JitterAmounts
    /\ particle_scale = 1
    /\ shape = "circle"
    /\ color_mix \in {Rat(0, 1), Rat(1, 1)}
    /\ gen_pc = "created"
    /\ num_frames = 0 /\ start_hold_frames = 0 /\ end_hold_frames = 0
    /\ jitter_offsets = Empty /\ src_particles = <<>> /\ tgt_particles = <<>>
    /\ loop_i = 0
    /\ pending = NoFrame /\ written = <<>>
    /\ preview \in BOOLEAN /\ shown = <<>>
    /\ window = IF preview THEN "open" ELSE "none"
    /\ py_random = seed_state(0)
    /\ np_random = seed_state(0)

InitMismatch == InitLengths /\ IdleSolver /\ IdleCalls /\ IdleInv /\ IdleCells

\* lines 45 and 48: IndexError, an entry of assignment is out of bounds
GenStartRaise ==
    /\ gen_pc = "created"
    /\ pending = NoFrame
    /\ ~index_ok
    /\ gen_pc' = "raised"
    /\ genUnchanged
    /\ UNCHANGED <<num_frames, start_hold_frames, end_hold_frames, jitter_offsets,
                   src_particles, tgt_particles, loop_i, np_random, writerVars>>

\* line 85: IndexError, assigned_tgt_cells has no row i (line 83 has run)
PrecomputeRaise ==
    /\ gen_pc = "precompute"
    /\ loop_i < GenN
    /\ color_mix.num > 0
    /\ loop_i \notin DOMAIN assigned_tgt_cells
    /\ LET part == part_size(particle_scale)
       IN src_particles' =
             Append(src_particles, create_particle(src_cells[loop_i], part, part, shape))
    /\ gen_pc' = "raised"
    /\ genUnchanged
    /\ UNCHANGED <<num_frames, start_hold_frames, end_hold_frames, jitter_offsets,
                   tgt_particles, loop_i, np_random, writerVars>>

\* lines 94 and 98: ValueError, the shapes do not broadcast, in the first
\* render_frame call that the generator reaches
RenderRaise ==
    /\ pending = NoFrame
    /\ \/ gen_pc = "hold_start" /\ loop_i < start_hold_frames
       \/ gen_pc = "animate" /\ loop_i < num_frames
       \/ gen_pc = "hold_end" /\ loop_i < end_hold_frames
    /\ ~render_ok
    /\ gen_pc' = "raised"
    /\ UNCHANGED <<pending, loop_i>>
    /\ genYieldUnchanged

NextMismatch ==
    \/ NextGen
    \/ GenStartRaise
    \/ PrecomputeRaise
    \/ RenderRaise
    \/ PreviewError

SpecMismatch == InitMismatch /\ [][NextMismatch]_vars

----------------------------------------------------------------------------
(* get_cells (core.py).  An ndarray is [shape, data]: data holds the        *)
(* elements in C order; an element of the image is one pixel (its channel   *)
(* axis is carried along untouched by every step).  Positions are exact     *)
(* fractions.                                                               *)

MaxSide == 5

RECURSIVE Prod(_)
Prod(s) == IF s = <<>> THEN 1 ELSE Head(s) * Prod(Tail(s))

\* Python's a // b, which rounds toward minus infinity (b # 0)
FloorDiv(a, b) ==
    IF b > 0
    THEN (IF a >= 0 THEN a \div b ELSE -((b - a - 1) \div b))
    ELSE (IF a <= 0 THEN (-a) \div (-b) ELSE -((a - b - 1) \div (-b)))

\* where the slice [:k] of an axis of length len stops
slice_stop(k, len) ==
    IF k < 0 THEN (IF len + k < 0 THEN 0 ELSE len + k)
    ELSE IF k > len THEN len ELSE k

\* image[:valid_h, :valid_w]
crop(img, valid_h, valid_w) ==
    LET w == img.shape[2]
        sh == slice_stop(valid_h, img.shape[1])
        sw == slice_stop(valid_w, w)
    IN [shape |-> <<sh, sw>>,
        data |-> [k \in 1 .. sh * sw |->
                    img.data[((k - 1) \div sw) * w + ((k - 1) % sw) + 1]]]

RECURSIVE unravel(_, _)
\* the index tuple of the element at C-order offset k
unravel(newshape, k) ==
    IF newshape = <<>> THEN <<>>
    ELSE LET p == Prod(Tail(newshape))
         IN <<k \div p>> \o unravel(Tail(newshape), k % p)

RECURSIVE ravel_index(_, _)
\* the C-order offset of the element at an index tuple
ravel_index(newshape, idx) ==
    IF newshape = <<>> THEN 0
    ELSE idx[1] * Prod(Tail(newshape)) + ravel_index(Tail(newshape), Tail(idx))

ValueError == "ValueError"
ZeroDivisionError == "ZeroDivisionError"

\* a variant of fix_unknown_dimension: an unknown dimension next to a zero
\* one is taken as 0
fix_unknown_dimension_lenient(size, newshape) ==
    LET unknown == {a \in DOMAIN newshape : newshape[a] < 0}
        s_known == Prod([a \in DOMAIN newshape |->
                            IF newshape[a] < 0 THEN 1 ELSE newshape[a]])
        filled(v) == [error |-> NoResult,
                      dims |-> [a \in DOMAIN newshape |->
                                  IF a \in unknown THEN v ELSE newshape[a]]]
    IN IF Cardinality(unknown) > 1 THEN [error |-> ValueError]
       ELSE IF unknown # {}
       THEN (IF s_known = 0 THEN filled(0)
             ELSE IF size % s_known # 0 THEN [error |-> ValueError]
             ELSE filled(size \div s_known))
       ELSE IF size # s_known THEN [error |-> ValueError]
       ELSE filled(0)

\* ndarray.reshape's shape check: at most one unknown (negative) dimension,
\* which must be determined by the others; the sizes must agree
fix_unknown_dimension(size, newshape) ==
    LET unknown == {a \in DOMAIN newshape : newshape[a] < 0}
        s_known == Prod([a \in DOMAIN newshape |->
                            IF newshape[a] < 0 THEN 1 ELSE newshape[a]])
        filled(v) == [error |-> NoResult,
                      dims |-> [a \in DOMAIN newshape |->
                                  IF a \in unknown THEN v ELSE newshape[a]]]
    IN IF Cardinality(unknown) > 1 THEN [error |-> ValueError]
       ELSE IF unknown # {}
       THEN (IF s_known = 0 \/ size % s_known # 0 THEN [error |-> ValueError]
             ELSE filled(size \div s_known))
       ELSE IF size # s_known THEN [error |-> ValueError]
       ELSE filled(0)

\* arr.reshape(newshape): the same elements in the same C order, or ValueError
reshape(arr, newshape) ==
    LET fixed == fix_unknown_dimension(Len(arr.data), newshape)
    IN IF fixed.error # NoResult THEN [error |-> fixed.error]
       ELSE [error |-> NoResult, shape |-> fixed.dims, data |-> arr.data]

\* arr.transpose(axes): axis a of the result is axis axes[a] of arr
transpose(arr, axes) ==
    LET sh == [a \in DOMAIN axes |-> arr.shape[axes[a] + 1]]
        old_index(idx) ==
            [b \in DOMAIN axes |-> idx[CHOOSE a \in DOMAIN axes : axes[a] = b - 1]]
    IN [shape |-> sh,
        data |-> [k \in 1 .. Prod(sh) |->
                    arr.data[ravel_index(arr.shape, old_index(unravel(sh, k - 1))) + 1]]]

\* get_cells(image, grid_res): [error, cells, positions]
get_cells(img, res) ==
    IF res = 0
    THEN [error |-> ZeroDivisionError]                           \* line 40
    ELSE LET h == img.shape[1]
             w == img.shape[2]
             valid_h == FloorDiv(h, res) * res
             valid_w == FloorDiv(w, res) * res
             cropped == crop(img, valid_h, valid_w)
             cell_h == FloorDiv(valid_h, res)
             cell_w == FloorDiv(valid_w, res)
             grid == reshape(cropped, <<res, cell_h, res, cell_w>>)
         IN IF grid.error # NoResult
            THEN [error |-> ValueError]                           \* line 78
            ELSE LET swapped == transpose(grid, <<0, 2, 1, 3>>)
                     flat == reshape(swapped, <<-1, cell_h, cell_w>>)
                 IN IF flat.error # NoResult
                    THEN [error |-> ValueError]                   \* line 80
                    ELSE [error |-> NoResult,
                          cells |-> [shape |-> flat.shape, data |-> flat.data],
                          positions |-> cell_positions(res)]

\* a buffer of h rows and w columns whose pixel at (r, c) is tagged <<r, c>>
Buffer(h, w) ==
    [shape |-> <<h, w>>,
     data |-> [k \in 1 .. h * w |-> <<(k - 1) \div w, (k - 1) % w>>]]

InitCells ==
    /\ \E h, w \in 1 .. MaxSide : image = Buffer(h, w)
    /\ grid_res \in -2 .. MaxSide + 1
    /\ cells_pc = "call"
    /\ cells = NoArray /\ positions = Empty /\ cells_error = NoResult

IdleRest ==
    /\ py_random = seed_state(0) /\ np_random = seed_state(0)
    /\ IdleSolver /\ IdleCalls /\ IdleFrames /\ IdleInv
    /\ src_pos = Empty /\ tgt_pos = Empty /\ assignment = Empty

InitGetCells == InitCells /\ IdleRest

restUnchanged == UNCHANGED <<solverVars, rngVars, callVars, frameVars, invVars>>

\* get_cells returns (line 91)
GetCells ==
    /\ cells_pc = "call"
    /\ LET out == get_cells(image, grid_res)
       IN /\ out.error = NoResult
          /\ cells' = out.cells
          /\ positions' = out.positions
    /\ cells_pc' = "returned"
    /\ UNCHANGED <<image, grid_res, cells_error>>
    /\ restUnchanged

\* line 40: integer division by zero
GetCellsZeroDivision ==
    /\ cells_pc = "call"
    /\ get_cells(image, grid_res).error = ZeroDivisionError
    /\ cells_error' = ZeroDivisionError
    /\ cells_pc' = "raised"
    /\ UNCHANGED <<image, grid_res, cells, positions>>
    /\ restUnchanged

\* lines 78 and 80: reshape refuses the shape
GetCellsValueError ==
    /\ cells_pc = "call"
    /\ get_cells(image, grid_res).error = ValueError
    /\ cells_error' = ValueError
    /\ cells_pc' = "raised"
    /\ UNCHANGED <<image, grid_res, cells, positions>>
    /\ restUnchanged

NextCells ==
    \/ GetCells
    \/ GetCellsZeroDivision
    \/ GetCellsValueError

SpecCells == InitGetCells /\ [][NextCells]_vars

----------------------------------------------------------------------------
(* A second call of solve_assignment with the same arguments, after other   *)
(* code of the process has used the generators                              *)

InitDet ==
    /\ \E n \in 0 .. MaxN :
         /\ src_features \in [Idx(n) -> Palette]
         /\ tgt_features \in [Idx(n) -> Palette]
         /\ src_pos = RowMajor(n)
         /\ tgt_pos \in Layouts(n)
    /\ algorithm \in {"sort", "approx"}
    /\ tie_order \in IF algorithm = "approx" THEN TieOrders(N) ELSE {Arange(N)}
    /\ proximity_importance \in PValues
    /\ pc = "call"
    /\ assignment = Empty
    /\ taken_targets = {}
    /\ source_indices = <<>>
    /\ visit = 0
    /\ result = NoResult
    /\ py_random = seed_state(0)
    /\ np_random = seed_state(0)
    /\ IdleCalls /\ IdleFrames /\ IdleInv /\ IdleCells

CallAgain ==
    /\ pc = "returned"
    /\ calls = 1
    /\ calls' = 2
    /\ first_result' = result
    /\ py_random' \in RngStates
    /\ np_random' \in RngStates
    /\ rng_at_call' = <<py_random', np_random'>>
    /\ pc' = "call"
    /\ assignment' = Empty
    /\ taken_targets' = {}
    /\ source_indices' = <<>>
    /\ visit' = 0
    /\ result' = NoResult
    /\ inputsUnchanged
    /\ UNCHANGED <<frameVars, invVars, cellVars>>

NextDet ==
    \/ SolveSort
    \/ ApproxStart
    \/ ApproxVisit
    \/ LoopReturn
    \/ CallAgain

SpecDet == InitDet /\ [][NextDet]_vars

----------------------------------------------------------------------------
(* Two invocations of the pipeline in one process (two requests served by   *)
(* app.py, or main() called twice): each seeds the generators (cli.py       *)
(* 61-65), shuffles greedy's visiting order (assignment.py 99-100) and      *)
(* draws its jitter offsets (animate.py 52), all on the process-wide        *)
(* generators.                                                              *)

Invocations == {1, 2}

\* args.seed is None: --seed was not given (app.py never seeds)
NoSeed == -1

\* the number of cells of both invocations
InvCells == MaxN

InitInv ==
    /\ inv_pc = [k \in Invocations |-> "seed"]
    /\ inv_seed \in [Invocations -> Seeds \cup {NoSeed}]
    /\ inv_order = [k \in Invocations |-> Empty]
    /\ inv_i = [k \in Invocations |-> 0]
    /\ inv_jitter = [k \in Invocations |-> Empty]
    \* both generators were seeded from the system's entropy at import
    /\ \E entropy \in Seeds :
         /\ py_random = seed_state(entropy)
         /\ np_random = seed_state(entropy)
    /\ IdleCalls /\ IdleCells
    /\ IdleSolver /\ src_pos = Empty /\ tgt_pos = Empty /\ assignment = Empty
    /\ src_cells = Empty /\ tgt_cells = Empty
    /\ duration = 0 /\ fps = 0 /\ jitter_amount = 1 /\ particle_scale = 0
    /\ shape = "square" /\ color_mix = [num |-> 0, den |-> 1]
    /\ hold_start = 0 /\ hold_end = 0
    /\ gen_pc = "idle"
    /\ num_frames = 0 /\ start_hold_frames = 0 /\ end_hold_frames = 0
    /\ jitter_offsets = Empty /\ src_particles = <<>> /\ tgt_particles = <<>>
    /\ loop_i = 0
    /\ pending = NoFrame /\ written = <<>>
    /\ preview = FALSE /\ shown = <<>> /\ window = "none"

invUnchanged == UNCHANGED <<solverVars, callVars, frameVars, inv_seed, cellVars>>

\* if args.seed is not None (line 61) is false: nothing is seeded
InvNoSeed(k) ==
    /\ inv_pc[k] = "seed"
    /\ inv_seed[k] = NoSeed
    /\ inv_pc' = [inv_pc EXCEPT ![k] = "shuffle"]
    /\ invUnchanged
    /\ UNCHANGED <<rngVars, inv_order, inv_i, inv_jitter>>

\* np.random.seed(args.seed) (line 64)
InvSeed(k) ==
    /\ inv_pc[k] = "seed"
    /\ inv_seed[k] # NoSeed
    /\ np_random' = seed_state(inv_seed[k])
    /\ inv_pc' = [inv_pc EXCEPT ![k] = "seed_random"]
    /\ invUnchanged
    /\ UNCHANGED <<py_random, inv_order, inv_i, inv_jitter>>

\* random.seed(args.seed) (line 65)
InvSeedRandom(k) ==
    /\ inv_pc[k] = "seed_random"
    /\ py_random' = seed_state(inv_seed[k])
    /\ inv_pc' = [inv_pc EXCEPT ![k] = "shuffle"]
    /\ invUnchanged
    /\ UNCHANGED <<np_random, inv_order, inv_i, inv_jitter>>

\* source_indices = list(range(rows)); random.shuffle(source_indices) is
\* entered: for i in reversed(range(1, len(x)))
InvShuffle(k) ==
    /\ inv_pc[k] = "shuffle"
    /\ inv_order' = [inv_order EXCEPT ![k] = identity(InvCells)]
    /\ inv_i' = [inv_i EXCEPT ![k] = InvCells - 1]
    /\ inv_pc' = [inv_pc EXCEPT ![k] = IF InvCells - 1 < 1 THEN "jitter" ELSE "shuffling"]
    /\ invUnchanged
    /\ UNCHANGED <<rngVars, inv_jitter>>

\* one getrandbits of j = randbelow(i + 1): a value of i + 1 or more is
\* thrown away and drawn again, any other is j and x[i], x[j] = x[j], x[i]
InvShuffleDraw(k) ==
    /\ inv_pc[k] = "shuffling"
    /\ LET i == inv_i[k]
           r == getrandbits(py_random, bit_length(i + 1))
           j == r.value
           x == inv_order[k]
       IN /\ py_random' = r.state
          /\ IF j >= i + 1
             THEN UNCHANGED <<inv_order, inv_i, inv_pc>>
             ELSE /\ inv_order' = [inv_order EXCEPT ![k] = [x EXCEPT ![i] = x[j], ![j] = x[i]]]
                  /\ inv_i' = [inv_i EXCEPT ![k] = i - 1]
                  /\ inv_pc' = [inv_pc EXCEPT ![k] = IF i - 1 < 1 THEN "jitter" ELSE "shuffling"]
    /\ invUnchanged
    /\ UNCHANGED <<np_random, inv_jitter>>

\* jitter_offsets = (np.random.rand(N, 2) - 0.5) * 2 * jitter_amount
InvJitter(k) ==
    /\ inv_pc[k] = "jitter"
    /\ LET j == draw_jitter(InvCells, np_random, jitter_amount)
       IN /\ inv_jitter' = [inv_jitter EXCEPT ![k] = j.offsets]
          /\ np_random' = j.state
    /\ inv_pc' = [inv_pc EXCEPT ![k] = "done"]
    /\ invUnchanged
    /\ UNCHANGED <<py_random, inv_order, inv_i>>

NextInv ==
    \E k \in Invocations :
        \/ InvNoSeed(k)
        \/ InvSeed(k)
        \/ InvSeedRandom(k)
        \/ InvShuffle(k)
        \/ InvShuffleDraw(k)
        \/ InvJitter(k)

SpecInv == InitInv /\ [][NextInv]_vars

----------------------------------------------------------------------------
(* Properties *)

\* ---- the solver

\* C1: every known strategy returns, for every N >= 0, an array of length N
\* in which every value of 0..N-1 appears exactly once (none is left at -1,
\* no target is used twice), and never ends in the error.
C1_Bijection ==
    /\ pc = "returned" =>
         /\ algorithm \in Algorithms
         /\ DOMAIN result = Idx(N)
         /\ N = Cardinality(DOMAIN tgt_features)
         /\ \A i \in Idx(N) : result[i] \in Idx(N)
         /\ \A j \in Idx(N) : Cardinality({i \in Idx(N) : result[i] = j}) = 1
    /\ algorithm \in Algorithms => pc # "raised"

C1_Witness ==
    /\ pc = "returned" /\ algorithm = "greedy" /\ N = MaxN
    /\ result # identity(N)
    /\ \E i \in Idx(N) : argsort(cost_matrix[i], N)[1] # result[i]

\* C2: the array returned by "optimal" costs no more, summed over the cost
\* matrix, than any bijection of 0..N-1, and so no more than what "sort" and
\* "approx" return on the same arguments.
C2_OptimalIsMinimum ==
    (pc = "returned" /\ algorithm = "optimal") =>
        /\ IsPermutation(result, N)
        /\ \A a \in Bijections(N) :
              TotalCost(cost_matrix, result, N) <= TotalCost(cost_matrix, a, N)
        /\ TotalCost(cost_matrix, result, N)
             <= TotalCost(cost_matrix,
                          sort_assignment(src_features, src_pos, tgt_features, tgt_pos, N), N)

C2_Witness ==
    /\ pc = "returned" /\ algorithm = "optimal" /\ N = MaxN
    /\ TotalCost(cost_matrix, result, N) > 0
    /\ TotalCost(cost_matrix, result, N) < TotalCost(cost_matrix, identity(N), N)
    /\ \E i \in Idx(N) : argsort(cost_matrix[i], N)[1] # result[i]

\* the key (luminance, row, col) of a cell, and its strict lexicographic order
sort_key(features, pos, i) ==
    <<299 * features[i][1] + 587 * features[i][2] + 114 * features[i][3],
      pos[i][1], pos[i][2]>>
KeyLess(a, b) ==
    \/ a[1] < b[1]
    \/ (a[1] = b[1] /\ a[2] < b[2])
    \/ (a[1] = b[1] /\ a[2] = b[2] /\ a[3] < b[3])
\* the rank of cell i: how many cells come before it (ties by index)
Rank(features, pos, i) ==
    Cardinality({j \in DOMAIN features :
        \/ KeyLess(sort_key(features, pos, j), sort_key(features, pos, i))
        \/ (sort_key(features, pos, j) = sort_key(features, pos, i) /\ j < i)})

\* C3: "sort" maps the source of rank k in ascending (luminance, row, col)
\* order to the target of rank k, for every k; the ranks are read off the
\* keys alone, so the result is the same whatever proximity_importance is.
C3_SortByKeys ==
    (pc = "returned" /\ algorithm = "sort") =>
        /\ DOMAIN result = Idx(N)
        /\ \A i \in Idx(N) :
              /\ result[i] \in Idx(N)
              /\ Rank(src_features, src_pos, i) = Rank(tgt_features, tgt_pos, result[i])

C3_Witness ==
    /\ pc = "returned" /\ algorithm = "sort" /\ N = MaxN
    /\ proximity_importance = PDen
    /\ src_pos = ColMajor(N)
    /\ \A i \in Idx(N) : src_features[i] = src_features[0]
    /\ \E i \in Idx(N) : src_features[i] # tgt_features[i]
    /\ result # identity(N)

\* C6: with a strategy name outside the four the call ends in the error, for
\* every N, and nothing is returned: no result, no partly filled array.
C6_UnknownRaises ==
    /\ [](algorithm \notin Algorithms =>
            /\ pc \in {"call", "raised"}
            /\ result = NoResult
            /\ assignment = Empty)
    /\ [][(algorithm \notin Algorithms /\ pc = "call") => pc' = "raised"]_vars

C6_Witness ==
    /\ pc = "raised" /\ algorithm \notin Algorithms /\ N = MaxN

\* C4: "sort" and "approx" leave the process-wide generators as they found
\* them, and a second call with the same arguments returns what the first
\* returned, whatever the generators' states before either call.
C4_Deterministic ==
    (pc = "returned" /\ algorithm \in {"sort", "approx"}) =>
        /\ <<py_random, np_random>> = rng_at_call
        /\ calls = 2 => result = first_result

C4_Witness ==
    /\ pc = "returned" /\ algorithm = "approx" /\ calls = 2 /\ N = MaxN
    /\ result # identity(N)
    /\ py_random # seed_state(0) /\ np_random # seed_state(0)

\* ---- two invocations in one process

\* C5: an invocation that was given a seed and has finished visited greedy's
\* sources in the order, and drew the jitter offsets, that its own seed gives
\* when it runs alone.
C5_Isolated ==
    \A k \in Invocations :
        inv_pc[k] = "done" /\ inv_seed[k] # NoSeed =>
            /\ inv_order[k] = shuffle(identity(InvCells), InvCells, seed_state(inv_seed[k])).list
            /\ inv_jitter[k] =
                 draw_jitter(InvCells, seed_state(inv_seed[k]), jitter_amount).offsets

\* ---- the frame stream

\* the frames the consumer has taken: save_video's writer or the preview window
Delivered == IF preview THEN shown ELSE written

\* the frames yielded so far, in the order of the yields
Emitted == IF pending = NoFrame THEN Delivered ELSE Append(Delivered, pending)

PhaseRank(ph) == CASE ph = "hold_start" -> 0 [] ph = "animate" -> 1 [] OTHER -> 2

\* round(x) of Python 3 for the fraction x >= 0: the nearest integer, a half to
\* the even one
RoundHalfEven(a) ==
    LET lo == a.num \div a.den
        twice == 2 * (a.num - lo * a.den)
    IN IF twice < a.den THEN lo
       ELSE IF twice > a.den THEN lo + 1
       ELSE IF lo % 2 = 0 THEN lo ELSE lo + 1

\* C7: once the stream has ended, the writer has received exactly
\* round(hold_start*fps) + round(duration*fps) + round(hold_end*fps) frames,
\* for positive duration, fps and holds.
C7_RoundedFrameCount ==
    (gen_pc = "exhausted" /\ hold_start > 0 /\ hold_end > 0) =>
        Len(Delivered) = RoundHalfEven(Rat(hold_start * fps, TimeDen))
                       + RoundHalfEven(Rat(duration * fps, TimeDen))
                       + RoundHalfEven(Rat(hold_end * fps, TimeDen))

\* C8: frames are yielded, and given to the writer, in this order only: the
\* copies of the frame of t = 0, then the animated frames by strictly
\* increasing time, then the copies of the frame of t = 1.
C8_Order ==
    /\ \A k \in 1 .. Len(Delivered) : Delivered[k].seq = k - 1
    /\ \A k \in 1 .. Len(Emitted) :
         LET fr == Emitted[k]
         IN /\ fr.phase = "hold_start" => k <= start_hold_frames /\ fr.t = T0
            /\ fr.phase = "animate" =>
                 /\ k - start_hold_frames \in 1 .. num_frames
                 /\ fr.t = frame_time(k - start_hold_frames - 1, num_frames)
            /\ fr.phase = "hold_end" => k > start_hold_frames + num_frames /\ fr.t = T1
            /\ k > 1 =>
                 /\ PhaseRank(Emitted[k - 1].phase) <= PhaseRank(fr.phase)
                 /\ ~f64_less(fr.t, Emitted[k - 1].t)
                 /\ (fr.phase = "animate" /\ Emitted[k - 1].phase = "animate")
                       => f64_less(Emitted[k - 1].t, fr.t)
    \* the frame yielded last is the rendering of its time
    /\ Emitted # <<>> =>
         Emitted[Len(Emitted)].image = render_frame(Emitted[Len(Emitted)].t)
    /\ gen_pc = "exhausted" =>
         /\ Len(Delivered) = start_hold_frames + num_frames + end_hold_frames
         /\ \A k \in 1 .. Len(Delivered) :
              Delivered[k].phase =
                 IF k <= start_hold_frames THEN "hold_start"
                 ELSE IF k <= start_hold_frames + num_frames THEN "animate"
                 ELSE "hold_end"

\* a frame, once yielded, is never changed, dropped or moved
C8_Kept ==
    /\ Len(Emitted') >= Len(Emitted)
    /\ \A k \in 1 .. Len(Emitted) : Emitted'[k] = Emitted[k]

C8_FrameOrder == []C8_Order /\ [][C8_Kept]_vars

C8_Witness ==
    /\ gen_pc = "exhausted"
    /\ start_hold_frames >= 2 /\ num_frames >= 3 /\ end_hold_frames >= 2
    /\ Len(Delivered) = start_hold_frames + num_frames + end_hold_frames

\* the placement of cell i at a boundary time when jitter_amount is 0
unjittered(t, i) ==
    LET part == part_size(particle_scale)
        zero == f64_zero
    IN [top |-> placement(t, pos_of(src_pos[i][1]), pos_of(tgt_pos[assignment[i]][1]),
                          zero, part),
        left |-> placement(t, pos_of(src_pos[i][2]), pos_of(tgt_pos[assignment[i]][2]),
                           zero, part)]

\* C9: in every frame of t = 0 and of t = 1, every cell is placed where it is
\* placed with jitter_amount = 0 (its source position, its target position).
C9_JitterVanishes ==
    \A k \in 1 .. Len(Emitted) :
        Emitted[k].t \in {T0, T1} =>
            \A i \in Idx(GenN) :
                /\ Emitted[k].image[i].top = unjittered(Emitted[k].t, i).top
                /\ Emitted[k].image[i].left = unjittered(Emitted[k].t, i).left

\* C10: with color_mix = 0 no target-coloured particle is ever made, and
\* every cell of every frame is drawn with its unmodified source particle.
C10_SourceOnly ==
    color_mix.num = 0 =>
        /\ tgt_particles = <<>>
        /\ \A k \in 1 .. Len(Emitted) : \A i \in Idx(GenN) :
              Emitted[k].image[i].p =
                 create_particle(src_cells[i], part_size(particle_scale),
                                 part_size(particle_scale), shape)

C10_Witness ==
    /\ color_mix.num = 0 /\ gen_pc = "exhausted" /\ num_frames >= 3
    /\ \E k \in 1 .. Len(Delivered) : Delivered[k].t \notin {T0, T1}

\* C11: no frame is ever yielded by a call whose arrays differ in length.
C11_MismatchRejected == ~lengths_agree => Emitted = <<>>

\* ---- get_cells

\* C12: for a square buffer of side S and 1 <= R <= S, get_cells returns R*R
\* cells of side S'/R, S' = (S div R)*R, in row-major order: cell row*R+col
\* holds the pixels of rows [row*S'/R, (row+1)*S'/R) and columns
\* [col*S'/R, (col+1)*S'/R), every pixel of the truncated buffer is in exactly
\* one cell, and position row*R+col is ((row+0.5)/R, (col+0.5)/R).
C12_CellsPartition ==
    (/\ cells_pc = "returned"
     /\ image.shape[1] = image.shape[2]
     /\ 1 <= grid_res /\ grid_res <= image.shape[1]) =>
        LET S == image.shape[1]
            R == grid_res
            side == ((S \div R) * R) \div R
            pixel(r, c) == image.data[r * S + c + 1]
        IN /\ cells.shape = <<R * R, side, side>>
           /\ Len(cells.data) = R * R * side * side
           /\ \A row, col \in Idx(R) : \A b, e \in Idx(side) :
                 cells.data[ravel_index(cells.shape, <<row * R + col, b, e>>) + 1]
                    = pixel(row * side + b, col * side + e)
           /\ \A r, c \in Idx(side * R) :
                 Cardinality({k \in 1 .. Len(cells.data) : cells.data[k] = pixel(r, c)}) = 1
           /\ DOMAIN positions = Idx(R * R)
           /\ \A row, col \in Idx(R) :
                 positions[row * R + col] = <<f64(2 * row + 1, 2 * R), f64(2 * col + 1, 2 * R)>>

\* C13: get_cells raises, and returns neither cells nor positions, whenever
\* R <= 0 or the truncated size (S div R)*R is 0, that is R > S.
C13_BadResolutionRaises ==
    (/\ cells_pc # "call"
     /\ \/ grid_res <= 0
        \/ grid_res > image.shape[1]
        \/ grid_res > image.shape[2]) =>
        /\ cells_pc = "raised"
        /\ cells_error \in {ValueError, ZeroDivisionError}
        /\ cells = NoArray /\ positions = Empty

C13_Witness ==
    /\ cells_pc = "raised"
    /\ image.shape[1] = image.shape[2]
    /\ grid_res > image.shape[1]
    /\ cells_error = ValueError

\* ---- the solver and the cell-count ceiling

\* C14: solve_assignment takes no ceiling and has none of its own (above
\* 10000 cells it prints a warning and goes on), so the claim is stated for
\* every ceiling a caller may have in mind: asked for "optimal" on more cells
\* than the ceiling, the solver raises and returns no assignment.
C14_OptimalRefused ==
    \A ceiling \in 0 .. MaxN :
        (algorithm = "optimal" /\ pc # "call" /\ N > ceiling) =>
            (pc = "raised" /\ result = NoResult)

\* ---- the greedy and approx loops

\* the source visited in the k-th iteration (k = 1, 2, ...)
visited_source(k) == IF pc = "greedy_loop" THEN source_indices[k] ELSE k - 1

visited_sources == {visited_source(k) : k \in 1 .. visit}

\* C15: in the greedy loop (any visiting order) and the approx loop (order
\* 0, 1, ..., N-1), the source visited is given a target that is unclaimed at
\* that moment and costs it no more than any other unclaimed target; after
\* every visit the claimed set is the set of targets assigned so far, it has
\* as many members as sources were visited, and the sources not visited yet
\* are unassigned.
C15_CheapestUnclaimed ==
    /\ [](pc \in {"greedy_loop", "approx_loop"} =>
            /\ taken_targets = {assignment[i] : i \in visited_sources}
            /\ Cardinality(taken_targets) = visit
            /\ Cardinality(visited_sources) = visit
            /\ \A i \in visited_sources : assignment[i] \in Idx(N)
            /\ \A i \in Idx(N) \ visited_sources : assignment[i] = -1)
    /\ [][(pc \in {"greedy_loop", "approx_loop"} /\ visit' = visit + 1) =>
            LET i == visited_source(visit + 1)
                t == assignment'[i]
            IN /\ t \in Idx(N) \ taken_targets
               /\ \A u \in Idx(N) \ taken_targets : cost_matrix[i][t] <= cost_matrix[i][u]
               /\ taken_targets' = taken_targets \cup {t}
               /\ \A j \in Idx(N) \ {i} : assignment'[j] = assignment[j]]_vars

C15_Witness ==
    /\ pc = "greedy_loop"
    /\ visit = N /\ N >= 3
    /\ \E k \in 1 .. N - 1 : source_indices[k] > source_indices[k + 1]
    /\ \E i \in Idx(N) : \E u \in Idx(N) :
          cost_matrix[i][u] < cost_matrix[i][assignment[i]]

\* ---- particle precomputation

\* the generator is past the particle loop
past_precompute == gen_pc \in {"hold_start", "animate", "hold_end", "exhausted"}

\* C16: before the first frame is rendered or yielded, the particles of all N
\* source cells, of all N assigned target cells when color_mix > 0, and the
\* jitter offsets of all N cells exist; afterwards none of them is created or
\* changed.
C16_PrecomputeFirst ==
    /\ []((past_precompute \/ Emitted # <<>>) =>
            /\ past_precompute
            /\ Len(src_particles) = GenN
            /\ \A i \in Idx(GenN) :
                  src_particles[i + 1] =
                     create_particle(src_cells[i], part_size(particle_scale),
                                     part_size(particle_scale), shape)
            /\ color_mix.num > 0 =>
                  /\ Len(tgt_particles) = GenN
                  /\ \A i \in Idx(GenN) :
                        tgt_particles[i + 1] =
                           create_particle(tgt_cells[assignment[i]],
                                           part_size(particle_scale),
                                           part_size(particle_scale), shape)
            /\ DOMAIN jitter_offsets = Idx(GenN))
    /\ [][past_precompute =>
            UNCHANGED <<src_particles, tgt_particles, jitter_offsets>>]_vars

C16_Witness ==
    /\ gen_pc = "exhausted"
    /\ color_mix.num > 0
    /\ Len(tgt_particles) = GenN /\ GenN >= 2
    /\ Len(Delivered) >= 3

\* ---- colour blending

\* C17: in every frame the blend fraction is t_e * color_mix; a cell is drawn
\* with its source particle blended toward its target particle by that
\* fraction whenever the fraction is greater than 0, and with the unmodified
\* source particle only when the fraction is 0.
C17_BlendWheneverPositive ==
    \A k \in 1 .. Len(Emitted) : \A i \in Idx(GenN) :
        LET fraction == f64_mul(ease_in_out(Emitted[k].t), float_of(color_mix))
        IN Emitted[k].image[i].p =
              IF f64_less(f64_zero, fraction)
              THEN [blend |-> <<src_particles[i + 1], tgt_particles[i + 1]>>,
                    alpha |-> fraction]
              ELSE src_particles[i + 1]

\* ---- frame times

\* where a particle centred on pos is pasted: (pos * output_size - part / 2),
\* truncated, on both axes
pasted_at(pos) ==
    LET part == part_size(particle_scale)
        px(n) == f64_trunc(f64_sub(f64_mul(pos_of(n), f64_from_int(output_size)),
                                   f64_div_int(f64_from_int(part), 2)))
    IN [top |-> px(pos[1]), left |-> px(pos[2])]

\* the animated frames yielded so far, in order
animated_frames == SelectSeq(Emitted, LAMBDA fr : fr.phase = "animate")

\* C18: animated frame f of F is rendered at t = f/(F-1) for F > 1 and at
\* t = 1 for F = 1; for F > 1 the first is at t = 0 with every cell at its
\* source position, the last is at t = 1 with every cell i at the position of
\* target assignment[i], and t strictly increases with f; the hold-start
\* frames equal the first animated frame and the hold-end frames the last.
C18_FrameTimes ==
    LET F == num_frames
        frames == animated_frames
        placed(fr, i) == [top |-> fr.image[i].top, left |-> fr.image[i].left]
    IN /\ \A f \in 0 .. Len(frames) - 1 :
            LET fr == frames[f + 1]
            IN /\ fr.t = IF F > 1 THEN f64(f, F - 1) ELSE f64_from_int(1)
               /\ (F > 1 /\ f = 0) =>
                     /\ fr.t = f64_zero
                     /\ \A i \in Idx(GenN) : placed(fr, i) = pasted_at(src_pos[i])
               /\ f = F - 1 =>
                     /\ fr.t = f64_from_int(1)
                     /\ \A i \in Idx(GenN) :
                           placed(fr, i) = pasted_at(tgt_pos[assignment[i]])
               /\ f > 0 => f64_less(frames[f].t, fr.t)
       /\ \A k \in 1 .. Len(Emitted) :
            /\ (Emitted[k].phase = "hold_start" /\ F > 1 /\ Len(frames) >= 1) =>
                  Emitted[k].image = frames[1].image
            /\ (Emitted[k].phase = "hold_end" /\ F >= 1) =>
                  Emitted[k].image = frames[F].image

====
